---- MODULE Spec2Model ----
(***************************************************************************)
(* HermitSystem: the double-buffered input state machine (Win32Input) and  *)
(* the renderer frame lifecycle (DirectX11Renderer, DirectX12Renderer).    *)
(***************************************************************************)
EXTENDS Integers, Sequences, FiniteSets, TLC

(***************************************************************************)
(* Bounds of the model                                                     *)
(***************************************************************************)
\* client-area coordinates delivered by the platform are 0..MaxCoord
MaxCoord == 1
\* GetStats().frameCount is followed up to MaxFrames
MaxFrames == 3
\* GetStats().drawCalls is followed up to MaxDraws
MaxDraws == 1
\* m_currentFence is followed up to MaxFence
MaxFence == 3
\* entries of the command queue the GPU has not yet processed
MaxQueue == 3
\* readings of the high-resolution clock are 0..MaxTime
MaxTime == 1
\* the draw calls of one frame of SpecDraw
MaxDrawRun == 2
\* Update() calls after a key-down event are counted up to AgeCap
AgeCap == 2

(***************************************************************************)
(* Program constants                                                       *)
(***************************************************************************)
MAX_KEYS == 512
MAX_MOUSE_BUTTONS == 3
WHEEL_DELTA == 120
SWAP_CHAIN_BUFFER_COUNT == 2
\* initial m_backBufferWidth / m_backBufferHeight of DirectX12Renderer
DefaultWidth == 800
DefaultHeight == 600

\* nullptr, and the one non-null window handle of the model
NULL == 0
HWND1 == 1
\* the handle CreateEventEx returns
FenceEvent1 == 1

\* Key::Unknown
KeyUnknown == 0

\* MouseButton::Left, Right, Middle
MouseButtons == {0, 1, 2}

(***************************************************************************)
(* Inputs                                                                  *)
(***************************************************************************)
\* virtual-key codes of the key messages: 'W', VK_ESCAPE, and 7, which is
\* not in the key map
KeyCodes == {87, 27, 7}

\* cursor positions: GetCursorPos and the lParam of the mouse messages
Points == (0..MaxCoord) \X {0, 1}

\* GET_WHEEL_DELTA_WPARAM of the wheel messages
WheelRaw == {-180, 120}

\* the handlers given to Set*Callback: an empty std::function and two others
CallbackValues == {NULL, 1, 2}

\* window handles given to Initialize
Handles == {NULL, HWND1}

\* the two backends
APIs == {"DirectX11", "DirectX12"}

\* width and height given to Initialize and OnResize
Sizes == {<<800, 600>>, <<1024, 768>>}

\* width and height given to OnResize: WM_SIZE reports 0 x 0 for a minimized
\* window
ResizeSizes == Sizes \cup {<<0, 0>>}

\* indexCount given to DrawIndexed
IndexCounts == {3}

\* indexCount given to DrawIndexed in SpecDraw: multiples of 3 and others
DrawIndexCounts == {0, 2, 3, 4, 7}

\* BufferHandle and ShaderHandle values: nullptr, and one other pointer a
\* caller may hold
NullHandle == "nullptr"
ResourceHandles == {NullHandle, "0x1"}

\* the buffer descriptions given to CreateBuffer: type, usage, size, and
\* whether initialData is non-null
BufferTypes == {"VertexBuffer", "IndexBuffer"}
BufferUsages == {"Immutable"}
BufferSizes == {0, 12}

\* readings of the high-resolution clock
Times == 0..MaxTime

VARIABLES
    \* ---- Win32Input ----
    m_hwnd,
    m_currentKeyState, m_previousKeyState,      \* the indices whose entry is true
    m_currentMouseState, m_previousMouseState,  \* the indices whose entry is true
    m_mouseX, m_mouseY,
    m_previousMouseX, m_previousMouseY,
    m_mouseDeltaX, m_mouseDeltaY,
    m_wheelDelta,
    m_mouseCaptured, m_cursorVisible,
    m_keyCallback, m_mouseButtonCallback, m_mouseMoveCallback, m_mouseScrollCallback,
    \* ---- observation of Win32Input ----
    inOp,        \* the operation of the last step
    invoked,     \* the callback invocations made by the last step
    pressAge,    \* per key: Update() calls since its last up-to-down event
    heldX, heldY, \* the position held when the last Update()/Initialize() returned
    firstUpdatePending, \* Initialize() succeeded and Update() has not run since
    inArg,       \* the key or button the last key or button message named;
                 \* for Update(), the wheel delta that was pending before
                 \* it; for ShowCursor and CaptureMouse, the argument
                 \* (1: true, 0: false)
    cursorCalls, \* the ::ShowCursor / SetCapture / ReleaseCapture calls of the last step
    \* ---- the renderer object: DirectX11Renderer or DirectX12Renderer ----
    api,
    m_initialized,
    m_windowHandle,
    m_backBufferWidth, m_backBufferHeight,
    m_stats,
    m_frameStartTime,    \* DirectX11Renderer
    m_currBackBuffer,    \* DirectX12Renderer
    m_currentFence,      \* DirectX12Renderer
    m_fenceEvent,        \* DirectX12Renderer
    m_swapChainBuffer,   \* DirectX12Renderer: the resource state of each back
                         \* buffer, "null" for a released ComPtr
    \* ---- the platform objects behind DirectX12Renderer ----
    gpuQueue,            \* m_commandQueue: what the GPU has not yet processed
    fenceValue,          \* m_fence->GetCompletedValue()
    signalLog,           \* the values given to m_commandQueue->Signal, in order,
                         \* since m_fence was created
    \* ---- observation of the renderer ----
    rOp,                 \* the operation of the last step
    ret,                 \* what the last call returned
    rIn,                 \* the inputs of the last step: the width and height
                         \* or the index count given, and whether every platform
                         \* call succeeded
    cycPhase, cycDone, cycBase, \* the run of BeginFrame; EndFrame; Present cycles
    afterNullInit,       \* the last Initialize was Initialize(nullptr, ..) on an
                         \* uninitialized backend
    bufTrack,            \* <<h, n>>: the last CreateBuffer with a valid description
                         \* returned h and only n DestroyBuffer(h) calls followed
    parked,              \* the second backend object of a comparison: its fields
                         \* and what its last call returned
    twinPhase,           \* 1: the object above has been called and the parked
                         \* one not yet; 2: the parked one is now above and has
                         \* the same call to make; 0: both have made it
    \* ---- Win32Window (its m_input is the Win32Input above) ----
    m_hwndWindow,        \* Win32Window::m_hwnd
    m_isInitialized,
    m_shouldClose,
    m_vsyncEnabled,
    m_isFullscreen,
    m_config,
    m_closeCallback,
    s_classRegistered,
    \* ---- observation of Win32Window ----
    wOp,                 \* the operation of the last step
    wRet,                \* what the last call returned
    pumping,             \* Update() is in its PeekMessage loop
    vsyncSet,            \* SetVSync has been called since construction
    closeInvoked         \* the close handlers invoked by the last step

keyState == <<m_currentKeyState, m_previousKeyState>>
buttonState == <<m_currentMouseState, m_previousMouseState>>
mousePos == <<m_mouseX, m_mouseY>>
mousePrev == <<m_previousMouseX, m_previousMouseY>>
mouseDelta == <<m_mouseDeltaX, m_mouseDeltaY>>
cursorState == <<m_mouseCaptured, m_cursorVisible>>
callbacks == <<m_keyCallback, m_mouseButtonCallback, m_mouseMoveCallback, m_mouseScrollCallback>>

inputProgVars == <<m_hwnd, keyState, buttonState, mousePos, mousePrev, mouseDelta,
                   m_wheelDelta, cursorState, callbacks>>
inputObsVars == <<inOp, invoked, pressAge, heldX, heldY, firstUpdatePending,
                  inArg, cursorCalls>>
inputVars == <<inputProgVars, inputObsVars>>

backBufferSize == <<m_backBufferWidth, m_backBufferHeight>>
dx12Sync == <<m_currentFence, gpuQueue, fenceValue, signalLog>>
rendererProgVars == <<api, m_initialized, m_windowHandle, backBufferSize, m_stats,
                      m_frameStartTime, m_currBackBuffer, m_fenceEvent,
                      m_swapChainBuffer, dx12Sync>>
rendererObsVars == <<rOp, ret, rIn, cycPhase, cycDone, cycBase, afterNullInit,
                     bufTrack, parked, twinPhase>>
rendererVars == <<rendererProgVars, rendererObsVars>>

windowProgVars == <<m_hwndWindow, m_isInitialized, m_shouldClose, m_vsyncEnabled,
                    m_isFullscreen, m_config, m_closeCallback, s_classRegistered>>
windowObsVars == <<wOp, wRet, pumping, vsyncSet, closeInvoked>>
windowVars == <<windowProgVars, windowObsVars>>

(***************************************************************************)
(* Win32Input: pure helpers                                                *)
(***************************************************************************)
\* C++ integer division truncates toward zero
TruncDiv(a, b) == IF a >= 0 THEN a \div b ELSE -((-a) \div b)

\* the virtual-key codes InitializeKeyMap enters in m_keyMap; each is mapped
\* to the Key enumerator of the same ordinal
MappedVirtualKeys ==
    (65..90) \cup (48..57) \cup (112..123)
    \cup {32, 13, 27, 9, 8, 46, 45, 36, 35, 33, 34}
    \cup {37, 38, 39, 40}
    \cup {16, 17, 18}

VirtualKeyToKey(vk) == IF vk \in MappedVirtualKeys THEN vk ELSE KeyUnknown

IsKeyDown(key) == IF key < MAX_KEYS THEN key \in m_currentKeyState ELSE FALSE

WasKeyPressed(key) ==
    IF key >= MAX_KEYS THEN FALSE
    ELSE key \in m_currentKeyState /\ key \notin m_previousKeyState

WasKeyReleased(key) ==
    IF key >= MAX_KEYS THEN FALSE
    ELSE key \notin m_currentKeyState /\ key \in m_previousKeyState

IsMouseButtonDown(button) ==
    IF button < MAX_MOUSE_BUTTONS THEN button \in m_currentMouseState ELSE FALSE

WasMouseButtonPressed(button) ==
    IF button >= MAX_MOUSE_BUTTONS THEN FALSE
    ELSE button \in m_currentMouseState /\ button \notin m_previousMouseState

WasMouseButtonReleased(button) ==
    IF button >= MAX_MOUSE_BUTTONS THEN FALSE
    ELSE button \notin m_currentMouseState /\ button \in m_previousMouseState

\* the array after  array[index] = pressed
SetEntry(array, index, pressed) ==
    IF pressed THEN array \cup {index} ELSE array \ {index}

\* what Invoke*Callback does: one invocation if a handler is registered
Invocation(handler, args) ==
    IF handler # NULL THEN <<[handler |-> handler, args |-> args]>> ELSE <<>>

(***************************************************************************)
(* Win32Input: state changes of the operations                             *)
(***************************************************************************)
UpdateKeyState(key, pressed) ==
    IF key # KeyUnknown /\ key < MAX_KEYS
    THEN m_currentKeyState' = SetEntry(m_currentKeyState, key, pressed)
    ELSE UNCHANGED m_currentKeyState

UpdateMouseButtonState(button, pressed) ==
    IF button < MAX_MOUSE_BUTTONS
    THEN m_currentMouseState' = SetEntry(m_currentMouseState, button, pressed)
    ELSE UNCHANGED m_currentMouseState

UpdateMousePosition(x, y) ==
    /\ m_mouseX' = x
    /\ m_mouseY' = y

\* Win32Input::Win32Input
InputConstructed ==
    /\ m_hwnd = NULL
    /\ m_currentKeyState = {} /\ m_previousKeyState = {}
    /\ m_currentMouseState = {} /\ m_previousMouseState = {}
    /\ m_mouseX = 0 /\ m_mouseY = 0
    /\ m_previousMouseX = 0 /\ m_previousMouseY = 0
    /\ m_mouseDeltaX = 0 /\ m_mouseDeltaY = 0
    /\ m_wheelDelta = 0
    /\ m_mouseCaptured = FALSE /\ m_cursorVisible = TRUE
    /\ m_keyCallback = NULL /\ m_mouseButtonCallback = NULL
    /\ m_mouseMoveCallback = NULL /\ m_mouseScrollCallback = NULL

\* cursorPos is what GetCursorPosition() returns
InputInitialize(windowHandle, cursorPos) ==
    /\ m_hwnd' = windowHandle
    /\ IF windowHandle = NULL
       THEN UNCHANGED <<mousePos, mousePrev, mouseDelta>>
       ELSE /\ m_mouseX' = cursorPos[1] /\ m_previousMouseX' = cursorPos[1]
            /\ m_mouseY' = cursorPos[2] /\ m_previousMouseY' = cursorPos[2]
            /\ m_mouseDeltaX' = 0 /\ m_mouseDeltaY' = 0
    /\ invoked' = <<>>
    /\ UNCHANGED <<keyState, buttonState, m_wheelDelta, cursorState, callbacks>>

\* Update() that does not rotate the key buffer
InputUpdate_KeepPreviousKeys(cursorPos) ==
    /\ UNCHANGED m_previousKeyState
    /\ m_previousMouseState' = m_currentMouseState
    /\ m_previousMouseX' = m_mouseX
    /\ m_previousMouseY' = m_mouseY
    /\ m_mouseX' = cursorPos[1]
    /\ m_mouseY' = cursorPos[2]
    /\ m_mouseDeltaX' = cursorPos[1] - m_mouseX
    /\ m_mouseDeltaY' = cursorPos[2] - m_mouseY
    /\ m_wheelDelta' = 0
    /\ invoked' = <<>>
    /\ UNCHANGED <<m_hwnd, m_currentKeyState, m_currentMouseState, cursorState, callbacks>>

\* Update() that does not rotate the mouse-button buffer
InputUpdate_KeepPreviousButtons(cursorPos) ==
    /\ m_previousKeyState' = m_currentKeyState
    /\ UNCHANGED m_previousMouseState
    /\ m_previousMouseX' = m_mouseX
    /\ m_previousMouseY' = m_mouseY
    /\ m_mouseX' = cursorPos[1]
    /\ m_mouseY' = cursorPos[2]
    /\ m_mouseDeltaX' = cursorPos[1] - m_mouseX
    /\ m_mouseDeltaY' = cursorPos[2] - m_mouseY
    /\ m_wheelDelta' = 0
    /\ invoked' = <<>>
    /\ UNCHANGED <<m_hwnd, m_currentKeyState, m_currentMouseState, cursorState, callbacks>>

\* Update() that moves the current key state into the previous one
InputUpdate_ClearsKeys(cursorPos) ==
    /\ m_previousKeyState' = m_currentKeyState
    /\ m_currentKeyState' = {}
    /\ m_previousMouseState' = m_currentMouseState
    /\ m_previousMouseX' = m_mouseX
    /\ m_previousMouseY' = m_mouseY
    /\ m_mouseX' = cursorPos[1]
    /\ m_mouseY' = cursorPos[2]
    /\ m_mouseDeltaX' = cursorPos[1] - m_mouseX
    /\ m_mouseDeltaY' = cursorPos[2] - m_mouseY
    /\ m_wheelDelta' = 0
    /\ invoked' = <<>>
    /\ UNCHANGED <<m_hwnd, m_currentMouseState, cursorState, callbacks>>

\* Update() that leaves the wheel delta as it is
InputUpdate_KeepWheel(cursorPos) ==
    /\ m_previousKeyState' = m_currentKeyState
    /\ m_previousMouseState' = m_currentMouseState
    /\ m_previousMouseX' = m_mouseX
    /\ m_previousMouseY' = m_mouseY
    /\ m_mouseX' = cursorPos[1]
    /\ m_mouseY' = cursorPos[2]
    /\ m_mouseDeltaX' = cursorPos[1] - m_mouseX
    /\ m_mouseDeltaY' = cursorPos[2] - m_mouseY
    /\ invoked' = <<>>
    /\ UNCHANGED <<m_hwnd, m_currentKeyState, m_currentMouseState, m_wheelDelta,
                   cursorState, callbacks>>

InputUpdate(cursorPos) ==
    /\ m_previousKeyState' = m_currentKeyState
    /\ m_previousMouseState' = m_currentMouseState
    /\ m_previousMouseX' = m_mouseX
    /\ m_previousMouseY' = m_mouseY
    /\ m_mouseX' = cursorPos[1]
    /\ m_mouseY' = cursorPos[2]
    /\ m_mouseDeltaX' = cursorPos[1] - m_mouseX
    /\ m_mouseDeltaY' = cursorPos[2] - m_mouseY
    /\ m_wheelDelta' = 0
    /\ invoked' = <<>>
    /\ UNCHANGED <<m_hwnd, m_currentKeyState, m_currentMouseState, cursorState, callbacks>>

ResetInputState ==
    /\ m_currentKeyState' = {} /\ m_previousKeyState' = {}
    /\ m_currentMouseState' = {} /\ m_previousMouseState' = {}
    /\ m_mouseDeltaX' = 0 /\ m_mouseDeltaY' = 0
    /\ m_wheelDelta' = 0
    /\ invoked' = <<>>
    /\ UNCHANGED <<m_hwnd, mousePos, mousePrev, cursorState, callbacks>>

\* HandleKeyDown that does not test the key for Key::Unknown
HandleKeyDown_NoMapCheck(wParam) ==
    LET key == VirtualKeyToKey(wParam)
        wasPressed == ~IsKeyDown(key)
    IN  /\ UpdateKeyState(key, TRUE)
        /\ invoked' = IF wasPressed
                      THEN Invocation(m_keyCallback, <<key, TRUE>>)
                      ELSE <<>>
        /\ UNCHANGED <<m_hwnd, m_previousKeyState, buttonState, mousePos, mousePrev,
                       mouseDelta, m_wheelDelta, cursorState, callbacks>>

HandleKeyDown(wParam) ==
    LET key == VirtualKeyToKey(wParam)
        wasPressed == ~IsKeyDown(key)
    IN  /\ IF key # KeyUnknown
           THEN /\ UpdateKeyState(key, TRUE)
                /\ invoked' = IF wasPressed
                              THEN Invocation(m_keyCallback, <<key, TRUE>>)
                              ELSE <<>>
           ELSE /\ UNCHANGED m_currentKeyState
                /\ invoked' = <<>>
        /\ UNCHANGED <<m_hwnd, m_previousKeyState, buttonState, mousePos, mousePrev,
                       mouseDelta, m_wheelDelta, cursorState, callbacks>>

HandleKeyUp(wParam) ==
    LET key == VirtualKeyToKey(wParam)
    IN  /\ IF key # KeyUnknown
           THEN /\ UpdateKeyState(key, FALSE)
                /\ invoked' = Invocation(m_keyCallback, <<key, FALSE>>)
           ELSE /\ UNCHANGED m_currentKeyState
                /\ invoked' = <<>>
        /\ UNCHANGED <<m_hwnd, m_previousKeyState, buttonState, mousePos, mousePrev,
                       mouseDelta, m_wheelDelta, cursorState, callbacks>>

\* button is the one the message type selects; x, y are GET_X/Y_LPARAM
HandleMouseButtonDown(button, x, y) ==
    LET wasPressed == ~IsMouseButtonDown(button)
    IN  /\ UpdateMouseButtonState(button, TRUE)
        /\ UpdateMousePosition(x, y)
        /\ invoked' = IF wasPressed
                      THEN Invocation(m_mouseButtonCallback, <<button, TRUE, x, y>>)
                      ELSE <<>>
        /\ UNCHANGED <<m_hwnd, keyState, m_previousMouseState, mousePrev, mouseDelta,
                       m_wheelDelta, cursorState, callbacks>>

HandleMouseButtonUp(button, x, y) ==
    /\ UpdateMouseButtonState(button, FALSE)
    /\ UpdateMousePosition(x, y)
    /\ invoked' = Invocation(m_mouseButtonCallback, <<button, FALSE, x, y>>)
    /\ UNCHANGED <<m_hwnd, keyState, m_previousMouseState, mousePrev, mouseDelta,
                   m_wheelDelta, cursorState, callbacks>>

HandleMouseMove(x, y) ==
    /\ UpdateMousePosition(x, y)
    /\ invoked' = Invocation(m_mouseMoveCallback, <<x, y>>)
    /\ UNCHANGED <<m_hwnd, keyState, buttonState, mousePrev, mouseDelta,
                   m_wheelDelta, cursorState, callbacks>>

\* delta is GET_WHEEL_DELTA_WPARAM(wParam)
HandleMouseWheel(delta) ==
    /\ m_wheelDelta' = TruncDiv(delta, WHEEL_DELTA)
    /\ invoked' = Invocation(m_mouseScrollCallback, <<TruncDiv(delta, WHEEL_DELTA)>>)
    /\ UNCHANGED <<m_hwnd, keyState, buttonState, mousePos, mousePrev, mouseDelta,
                   cursorState, callbacks>>

SetKeyCallback(callback) ==
    /\ m_keyCallback' = callback
    /\ UNCHANGED <<m_mouseButtonCallback, m_mouseMoveCallback, m_mouseScrollCallback>>

SetMouseButtonCallback(callback) ==
    /\ m_mouseButtonCallback' = callback
    /\ UNCHANGED <<m_keyCallback, m_mouseMoveCallback, m_mouseScrollCallback>>

SetMouseMoveCallback(callback) ==
    /\ m_mouseMoveCallback' = callback
    /\ UNCHANGED <<m_keyCallback, m_mouseButtonCallback, m_mouseScrollCallback>>

SetMouseScrollCallback(callback) ==
    /\ m_mouseScrollCallback' = callback
    /\ UNCHANGED <<m_keyCallback, m_mouseButtonCallback, m_mouseMoveCallback>>

\* ClearCallbacks() that leaves the scroll handler registered
ClearCallbacks_KeepsScroll ==
    /\ m_keyCallback' = NULL
    /\ m_mouseButtonCallback' = NULL
    /\ m_mouseMoveCallback' = NULL
    /\ UNCHANGED m_mouseScrollCallback

ClearCallbacks ==
    /\ m_keyCallback' = NULL
    /\ m_mouseButtonCallback' = NULL
    /\ m_mouseMoveCallback' = NULL
    /\ m_mouseScrollCallback' = NULL

\* ShowCursor that does not compare its argument with m_cursorVisible
ShowCursor_AlwaysCalls(show) ==
    /\ cursorCalls' = <<"ShowCursor">>
    /\ m_cursorVisible' = show
    /\ invoked' = <<>>
    /\ UNCHANGED <<m_hwnd, keyState, buttonState, mousePos, mousePrev, mouseDelta,
                   m_wheelDelta, m_mouseCaptured, callbacks>>

\* the loop of ::ShowCursor calls is one entry of cursorCalls
ShowCursor(show) ==
    /\ IF show /\ ~m_cursorVisible
       THEN cursorCalls' = <<"ShowCursor">> /\ m_cursorVisible' = TRUE
       ELSE IF ~show /\ m_cursorVisible
       THEN cursorCalls' = <<"ShowCursor">> /\ m_cursorVisible' = FALSE
       ELSE cursorCalls' = <<>> /\ UNCHANGED m_cursorVisible
    /\ invoked' = <<>>
    /\ UNCHANGED <<m_hwnd, keyState, buttonState, mousePos, mousePrev, mouseDelta,
                   m_wheelDelta, m_mouseCaptured, callbacks>>

CaptureMouse(capture) ==
    /\ IF capture /\ ~m_mouseCaptured
       THEN cursorCalls' = <<"SetCapture">> /\ m_mouseCaptured' = TRUE
       ELSE IF ~capture /\ m_mouseCaptured
       THEN cursorCalls' = <<"ReleaseCapture">> /\ m_mouseCaptured' = FALSE
       ELSE cursorCalls' = <<>> /\ UNCHANGED m_mouseCaptured
    /\ invoked' = <<>>
    /\ UNCHANGED <<m_hwnd, keyState, buttonState, mousePos, mousePrev, mouseDelta,
                   m_wheelDelta, m_cursorVisible, callbacks>>

\* Shutdown() that leaves the mouse capture alone
InputShutdown_KeepsCapture ==
    /\ m_cursorVisible' = TRUE
    /\ cursorCalls' = (IF ~m_cursorVisible THEN <<"ShowCursor">> ELSE <<>>)
    /\ ClearCallbacks
    /\ m_hwnd' = NULL
    /\ invoked' = <<>>
    /\ UNCHANGED <<keyState, buttonState, mousePos, mousePrev, mouseDelta,
                   m_wheelDelta, m_mouseCaptured>>

\* Win32Input::Shutdown: CaptureMouse(false) if captured, ShowCursor(true) if
\* hidden, ClearCallbacks(), m_hwnd = nullptr
InputShutdown ==
    /\ m_mouseCaptured' = FALSE
    /\ m_cursorVisible' = TRUE
    /\ cursorCalls' = (IF m_mouseCaptured THEN <<"ReleaseCapture">> ELSE <<>>)
                      \o (IF ~m_cursorVisible THEN <<"ShowCursor">> ELSE <<>>)
    /\ ClearCallbacks
    /\ m_hwnd' = NULL
    /\ invoked' = <<>>
    /\ UNCHANGED <<keyState, buttonState, mousePos, mousePrev, mouseDelta,
                   m_wheelDelta>>

(***************************************************************************)
(* Win32Input: the steps of the input machine.  Each step is one call of   *)
(* the public interface or one message given to ProcessMessage, together   *)
(* with the bookkeeping of the observation variables.                      *)
(***************************************************************************)
\* the keys the key messages of the model can reach
ModelKeys == {VirtualKeyToKey(vk) : vk \in KeyCodes} \ {KeyUnknown}

\* pressAge counts Update() calls up to AgeCap; AgeNone: no press is followed
AgeNone == AgeCap + 1

InputInit ==
    /\ InputConstructed
    /\ inOp = "Construct"
    /\ invoked = <<>>
    /\ pressAge = [k \in ModelKeys |-> AgeNone]
    /\ heldX = 0 /\ heldY = 0
    /\ firstUpdatePending = FALSE
    /\ inArg = KeyUnknown
    /\ cursorCalls = <<>>

StepInitialize(handles, points) ==
    \E h \in handles, p \in points :
        /\ InputInitialize(h, p)
        /\ inOp' = "Initialize"
        /\ inArg' = KeyUnknown /\ cursorCalls' = <<>>
        /\ IF h # NULL
           THEN heldX' = p[1] /\ heldY' = p[2] /\ firstUpdatePending' = TRUE
           ELSE UNCHANGED <<heldX, heldY, firstUpdatePending>>
        /\ UNCHANGED pressAge

StepUpdate(points) ==
    \E p \in points :
        /\ InputUpdate(p)
        /\ inOp' = "Update"
        /\ inArg' = m_wheelDelta /\ cursorCalls' = <<>>
        /\ pressAge' = [k \in ModelKeys |->
                          IF pressAge[k] = AgeNone THEN AgeNone
                          ELSE IF pressAge[k] < AgeCap THEN pressAge[k] + 1
                          ELSE AgeCap]
        /\ heldX' = p[1] /\ heldY' = p[2]
        /\ firstUpdatePending' = FALSE

StepResetInputState ==
    /\ ResetInputState
    /\ inOp' = "ResetInputState"
    /\ inArg' = KeyUnknown /\ cursorCalls' = <<>>
    /\ pressAge' = [k \in ModelKeys |-> AgeNone]
    /\ UNCHANGED <<heldX, heldY, firstUpdatePending>>

\* WM_KEYDOWN / WM_SYSKEYDOWN
StepKeyDown(codes) ==
    \E vk \in codes :
        /\ HandleKeyDown(vk)
        /\ inOp' = "KeyDown"
        /\ inArg' = VirtualKeyToKey(vk) /\ cursorCalls' = <<>>
        /\ LET key == VirtualKeyToKey(vk)
           IN  pressAge' = IF key \in ModelKeys
                           THEN [pressAge EXCEPT ![key] =
                                    IF IsKeyDown(key) THEN AgeNone ELSE 0]
                           ELSE pressAge
        /\ UNCHANGED <<heldX, heldY, firstUpdatePending>>

\* WM_KEYUP / WM_SYSKEYUP
StepKeyUp(codes) ==
    \E vk \in codes :
        /\ HandleKeyUp(vk)
        /\ inOp' = "KeyUp"
        /\ inArg' = VirtualKeyToKey(vk) /\ cursorCalls' = <<>>
        /\ LET key == VirtualKeyToKey(vk)
           IN  pressAge' = IF key \in ModelKeys
                           THEN [pressAge EXCEPT ![key] = AgeNone]
                           ELSE pressAge
        /\ UNCHANGED <<heldX, heldY, firstUpdatePending>>

\* WM_LBUTTONDOWN / WM_RBUTTONDOWN / WM_MBUTTONDOWN
StepMouseButtonDown(buttons, points) ==
    \E b \in buttons, p \in points :
        /\ HandleMouseButtonDown(b, p[1], p[2])
        /\ inOp' = "MouseButtonDown"
        /\ inArg' = b /\ cursorCalls' = <<>>
        /\ UNCHANGED <<pressAge, heldX, heldY, firstUpdatePending>>

\* WM_LBUTTONUP / WM_RBUTTONUP / WM_MBUTTONUP
StepMouseButtonUp(buttons, points) ==
    \E b \in buttons, p \in points :
        /\ HandleMouseButtonUp(b, p[1], p[2])
        /\ inOp' = "MouseButtonUp"
        /\ inArg' = b /\ cursorCalls' = <<>>
        /\ UNCHANGED <<pressAge, heldX, heldY, firstUpdatePending>>

\* WM_MOUSEMOVE
StepMouseMove(points) ==
    \E p \in points :
        /\ HandleMouseMove(p[1], p[2])
        /\ inOp' = "MouseMove"
        /\ inArg' = KeyUnknown /\ cursorCalls' = <<>>
        /\ UNCHANGED <<pressAge, heldX, heldY, firstUpdatePending>>

\* WM_MOUSEWHEEL
StepMouseWheel ==
    \E d \in WheelRaw :
        /\ HandleMouseWheel(d)
        /\ inOp' = "MouseWheel"
        /\ inArg' = KeyUnknown /\ cursorCalls' = <<>>
        /\ UNCHANGED <<pressAge, heldX, heldY, firstUpdatePending>>

\* what a step that is no key or button message and makes no cursor call
\* leaves of the observation
PlainStep(op) ==
    /\ inOp' = op
    /\ inArg' = KeyUnknown
    /\ UNCHANGED <<pressAge, heldX, heldY, firstUpdatePending>>

\* SetKeyCallback / SetMouseButtonCallback / SetMouseMoveCallback /
\* SetMouseScrollCallback
StepSetCallback ==
    /\ \E callback \in CallbackValues :
          \/ SetKeyCallback(callback)
          \/ SetMouseButtonCallback(callback)
          \/ SetMouseMoveCallback(callback)
          \/ SetMouseScrollCallback(callback)
    /\ invoked' = <<>> /\ cursorCalls' = <<>>
    /\ UNCHANGED <<m_hwnd, keyState, buttonState, mousePos, mousePrev, mouseDelta,
                   m_wheelDelta, cursorState>>
    /\ PlainStep("SetCallback")

StepClearCallbacks ==
    /\ ClearCallbacks
    /\ invoked' = <<>> /\ cursorCalls' = <<>>
    /\ UNCHANGED <<m_hwnd, keyState, buttonState, mousePos, mousePrev, mouseDelta,
                   m_wheelDelta, cursorState>>
    /\ PlainStep("ClearCallbacks")

StepShowCursor ==
    /\ \E show \in BOOLEAN :
          /\ ShowCursor(show)
          /\ inArg' = (IF show THEN 1 ELSE 0)
    /\ inOp' = "ShowCursor"
    /\ UNCHANGED <<pressAge, heldX, heldY, firstUpdatePending>>

StepCaptureMouse ==
    /\ \E capture \in BOOLEAN :
          /\ CaptureMouse(capture)
          /\ inArg' = (IF capture THEN 1 ELSE 0)
    /\ inOp' = "CaptureMouse"
    /\ UNCHANGED <<pressAge, heldX, heldY, firstUpdatePending>>

StepShutdown ==
    /\ InputShutdown
    /\ PlainStep("Shutdown")

InputEvents == {"KeyDown", "KeyUp", "MouseButtonDown", "MouseButtonUp",
                "MouseMove", "MouseWheel"}

(***************************************************************************)
(* Win32Window.  The window owns the input router: Initialize and Shutdown *)
(* call the router's, and Update() dispatches the pending messages to      *)
(* WindowProc, which forwards the key messages to ProcessMessage, and then *)
(* calls the router's Update().  Update() is a loop, so it is three kinds  *)
(* of step: entering the loop, one DispatchMessage, and leaving the loop   *)
(* with the call of m_input->Update().                                     *)
(***************************************************************************)
\* WindowConfig: the fields Initialize branches on, and vsync
WindowConfigs ==
    {[vsync |-> TRUE, fullscreen |-> FALSE, maximized |-> FALSE],
     [vsync |-> FALSE, fullscreen |-> FALSE, maximized |-> FALSE],
     [vsync |-> TRUE, fullscreen |-> TRUE, maximized |-> FALSE],
     [vsync |-> TRUE, fullscreen |-> TRUE, maximized |-> TRUE]}

\* the platform call of Initialize that fails
WindowInitStages == {"None", "RegisterClass", "CreateWindow"}

\* Win32Window::Win32Window and the member initializers of IWindow
WindowConstructed ==
    /\ m_hwndWindow = NULL
    /\ m_isInitialized = FALSE
    /\ m_shouldClose = FALSE
    /\ m_vsyncEnabled = TRUE
    /\ m_isFullscreen = FALSE
    /\ m_config = [vsync |-> TRUE, fullscreen |-> FALSE, maximized |-> FALSE]
    /\ m_closeCallback = NULL
    /\ s_classRegistered = FALSE

ShouldClose == m_shouldClose
IsVSyncEnabled == m_vsyncEnabled

\* Win32Window::Initialize.  m_input->Initialize(m_hwnd) is the router's
\* Initialize with the handle CreateWindowHandle returned, which is not null
\* there, so it returns true.
WindowInitialize(config, failAt, points) ==
    IF m_isInitialized
    THEN /\ wRet' = FALSE
         /\ UNCHANGED <<windowProgVars, inputVars>>
    ELSE IF failAt = "RegisterClass" /\ ~s_classRegistered
    THEN /\ m_config' = config
         /\ wRet' = FALSE
         /\ UNCHANGED <<m_hwndWindow, m_isInitialized, m_shouldClose, m_vsyncEnabled,
                        m_isFullscreen, m_closeCallback, s_classRegistered, inputVars>>
    ELSE IF failAt = "CreateWindow"
    THEN /\ m_config' = config
         /\ s_classRegistered' = TRUE
         /\ m_hwndWindow' = NULL
         /\ wRet' = FALSE
         /\ UNCHANGED <<m_isInitialized, m_shouldClose, m_vsyncEnabled,
                        m_isFullscreen, m_closeCallback, inputVars>>
    ELSE /\ m_config' = config
         /\ s_classRegistered' = TRUE
         /\ m_hwndWindow' = HWND1
         /\ StepInitialize({HWND1}, points)
         /\ m_isFullscreen' = IF ~config.maximized /\ config.fullscreen
                              THEN TRUE ELSE m_isFullscreen
         /\ m_isInitialized' = TRUE
         /\ wRet' = TRUE
         /\ UNCHANGED <<m_shouldClose, m_vsyncEnabled, m_closeCallback>>

\* Win32Window::Shutdown
WindowShutdown ==
    IF ~m_isInitialized
    THEN UNCHANGED <<windowProgVars, inputVars>>
    ELSE /\ StepShutdown
         /\ m_hwndWindow' = NULL
         /\ m_isInitialized' = FALSE
         /\ UNCHANGED <<m_shouldClose, m_vsyncEnabled, m_isFullscreen, m_config,
                        m_closeCallback, s_classRegistered>>

\* WM_CLOSE
HandleClose ==
    /\ closeInvoked' = Invocation(m_closeCallback, <<>>)
    /\ m_shouldClose' = TRUE
    /\ UNCHANGED <<m_hwndWindow, m_isInitialized, m_vsyncEnabled, m_isFullscreen,
                   m_config, m_closeCallback, s_classRegistered>>

RequestClose ==
    /\ m_shouldClose' = TRUE
    /\ UNCHANGED <<m_hwndWindow, m_isInitialized, m_vsyncEnabled, m_isFullscreen,
                   m_config, m_closeCallback, s_classRegistered>>

SetVSync(enabled) ==
    /\ m_vsyncEnabled' = enabled
    /\ UNCHANGED <<m_hwndWindow, m_isInitialized, m_shouldClose, m_isFullscreen,
                   m_config, m_closeCallback, s_classRegistered>>

SetCloseCallback(callback) ==
    /\ m_closeCallback' = callback
    /\ UNCHANGED <<m_hwndWindow, m_isInitialized, m_shouldClose, m_vsyncEnabled,
                   m_isFullscreen, m_config, s_classRegistered>>

(***************************************************************************)
(* Win32Window: the steps.  The application calls the window only while    *)
(* Update() is not running.                                                *)
(***************************************************************************)
\* the window SystemFactory::CreateApplicationWindow has constructed around
\* a new Win32Input, before it calls Initialize
WindowInit ==
    /\ WindowConstructed
    /\ wOp = "Construct"
    /\ wRet = FALSE
    /\ pumping = FALSE
    /\ vsyncSet = FALSE
    /\ closeInvoked = <<>>

StepWindowInitialize(points) ==
    /\ ~pumping
    /\ \E config \in WindowConfigs, failAt \in WindowInitStages :
          WindowInitialize(config, failAt, points)
    /\ wOp' = "Initialize"
    /\ closeInvoked' = <<>>
    /\ UNCHANGED <<pumping, vsyncSet>>

StepWindowShutdown ==
    /\ ~pumping
    /\ WindowShutdown
    /\ wOp' = "Shutdown"
    /\ closeInvoked' = <<>>
    /\ UNCHANGED <<wRet, pumping, vsyncSet>>

\* the calls that touch the window only
StepWindowCall ==
    /\ ~pumping
    /\ \/ RequestClose /\ wOp' = "RequestClose" /\ UNCHANGED vsyncSet
       \/ \E enabled \in BOOLEAN :
             SetVSync(enabled) /\ wOp' = "SetVSync" /\ vsyncSet' = TRUE
       \/ \E callback \in {NULL, 1} :
             SetCloseCallback(callback) /\ wOp' = "SetCloseCallback"
             /\ UNCHANGED vsyncSet
    /\ closeInvoked' = <<>>
    /\ UNCHANGED <<wRet, pumping, inputVars>>

\* Update() is called: it returns at once on a window that is not
\* initialized and enters the PeekMessage loop otherwise
StepWindowUpdateBegin ==
    /\ ~pumping
    /\ IF m_isInitialized
       THEN wOp' = "Pump" /\ pumping' = TRUE
       ELSE wOp' = "Update" /\ UNCHANGED pumping
    /\ closeInvoked' = <<>>
    /\ UNCHANGED <<windowProgVars, wRet, vsyncSet, inputVars>>

\* DispatchMessage of a key message: WindowProc gives it to ProcessMessage
StepWindowDispatchKey(codes) ==
    /\ pumping
    /\ StepKeyDown(codes) \/ StepKeyUp(codes)
    /\ wOp' = "Pump"
    /\ closeInvoked' = <<>>
    /\ UNCHANGED <<windowProgVars, wRet, pumping, vsyncSet>>

\* DispatchMessage of WM_CLOSE
StepWindowDispatchClose ==
    /\ pumping
    /\ HandleClose
    /\ wOp' = "Pump"
    /\ UNCHANGED <<wRet, pumping, vsyncSet, inputVars>>

\* PeekMessage finds no message: m_input->Update(), and Update() returns
StepWindowUpdateEnd(points) ==
    /\ pumping
    /\ StepUpdate(points)
    /\ wOp' = "Update"
    /\ pumping' = FALSE
    /\ closeInvoked' = <<>>
    /\ UNCHANGED <<windowProgVars, wRet, vsyncSet>>

(***************************************************************************)
(* The command queue and the fence of DirectX12Renderer.                   *)
(* The queue holds, in submission order, what the GPU has not yet          *)
(* processed: command lists and fence signals.  Signal and                 *)
(* SetEventOnCompletion are taken to succeed.                              *)
(***************************************************************************)
Cmd == [kind |-> "cmd", value |-> 0]
Sig(v) == [kind |-> "signal", value |-> v]

\* the GPU processes the queue until the fence has reached target:
\* what a wait on the fence event lets happen
RECURSIVE RunGPUUntil(_, _, _)
RunGPUUntil(queue, value, target) ==
    IF value >= target \/ queue = <<>>
    THEN [queue |-> queue, value |-> value]
    ELSE RunGPUUntil(Tail(queue),
                     IF Head(queue).kind = "signal" THEN Head(queue).value ELSE value,
                     target)

\* DirectX12Renderer::FlushCommandQueue, from m_currentFence = fence
FlushCommandQueue(fence, queue, value) ==
    LET newFence == fence + 1
        signalled == Append(queue, Sig(newFence))
        waited == RunGPUUntil(signalled, value, newFence)
    IN  IF value < newFence
        THEN [fence |-> newFence, queue |-> waited.queue, value |-> waited.value,
              signals |-> <<newFence>>]
        ELSE [fence |-> newFence, queue |-> signalled, value |-> value,
              signals |-> <<newFence>>]

\* the body of DirectX12Renderer::WaitForGPU, from m_currentFence = current
WaitForGPUBody(current, queue, value) ==
    LET fence == current
        signalled == Append(queue, Sig(fence))
        waited == RunGPUUntil(signalled, value, fence)
    IN  IF value < fence
        THEN [fence |-> current + 1, queue |-> waited.queue, value |-> waited.value,
              signals |-> <<fence>>]
        ELSE [fence |-> current + 1, queue |-> signalled, value |-> value,
              signals |-> <<fence>>]

SetSync(sync) ==
    /\ m_currentFence' = sync.fence
    /\ gpuQueue' = sync.queue
    /\ fenceValue' = sync.value
    /\ signalLog' = signalLog \o sync.signals

\* the same on the command queue and the fence CreateCommandObjects has just
\* created
SetNewSync(sync) ==
    /\ m_currentFence' = sync.fence
    /\ gpuQueue' = sync.queue
    /\ fenceValue' = sync.value
    /\ signalLog' = sync.signals

\* uint32_t / uint64_t addition; the counters of the model stay far below
\* 2^32, where the sum does not wrap
Add32(a, b) == a + b
Add64(a, b) == a + b

\* RenderStats{}
NoStats == [frameCount |-> 0, frameTime |-> 0, drawCalls |-> 0, vertices |-> 0,
            triangles |-> 0]

\* the stages at which Initialize can fail
DX11InitStages == {"Device", "SwapChain", "RenderTargetView", "DepthStencil"}
DX12InitStages == {"Device", "CommandObjects", "FenceEvent", "SwapChain",
                   "DescriptorHeaps", "RenderTargetViews", "DepthStencil"}

(***************************************************************************)
(* DirectX11Renderer                                                       *)
(***************************************************************************)
DX11Constructed ==
    /\ m_initialized = FALSE
    /\ m_backBufferWidth = 0 /\ m_backBufferHeight = 0
    /\ m_windowHandle = NULL
    /\ m_frameStartTime = 0
    /\ m_stats = NoStats

\* failAt: the first platform call that fails, or "None"
DX11Initialize(windowHandle, width, height, failAt) ==
    IF m_initialized
    THEN /\ ret' = "true"
         /\ UNCHANGED <<m_initialized, m_windowHandle, backBufferSize>>
    ELSE IF windowHandle = NULL \/ width = 0 \/ height = 0
    THEN /\ ret' = "false"
         /\ UNCHANGED <<m_initialized, m_windowHandle, backBufferSize>>
    ELSE /\ m_windowHandle' = windowHandle
         /\ m_backBufferWidth' = width
         /\ m_backBufferHeight' = height
         /\ IF failAt \in DX11InitStages
            THEN ret' = "false" /\ UNCHANGED m_initialized
            ELSE ret' = "true" /\ m_initialized' = TRUE

\* Shutdown() that releases the window and leaves the initialized flag set
DX11Shutdown_KeepInitialized ==
    IF ~m_initialized
    THEN UNCHANGED <<m_initialized, m_windowHandle>>
    ELSE /\ UNCHANGED m_initialized
         /\ m_windowHandle' = NULL

DX11Shutdown ==
    IF ~m_initialized
    THEN UNCHANGED <<m_initialized, m_windowHandle>>
    ELSE /\ m_initialized' = FALSE
         /\ m_windowHandle' = NULL

\* now: the reading of the clock
DX11BeginFrame(now) ==
    IF ~m_initialized
    THEN UNCHANGED <<m_frameStartTime, m_stats>>
    ELSE /\ m_frameStartTime' = now
         /\ m_stats' = [m_stats EXCEPT !.drawCalls = 0, !.vertices = 0,
                                       !.triangles = 0]

DX11EndFrame(now) ==
    IF ~m_initialized
    THEN UNCHANGED m_stats
    ELSE \* frameTime is kept in microseconds: the float the code stores is
         \* this number / 1000.0f
         m_stats' = [m_stats EXCEPT !.frameTime = now - m_frameStartTime]

DX11Present ==
    IF ~m_initialized
    THEN UNCHANGED m_stats
    ELSE m_stats' = [m_stats EXCEPT !.frameCount = Add64(@, 1)]

\* OnResize() that resizes the swap chain and does not store the new size
DX11OnResize_KeepSize(width, height, resizeOk) ==
    UNCHANGED backBufferSize

\* resizeOk: ResizeBuffers succeeds
DX11OnResize(width, height, resizeOk) ==
    IF ~m_initialized \/ (width = m_backBufferWidth /\ height = m_backBufferHeight)
    THEN UNCHANGED backBufferSize
    ELSE IF width = 0 \/ height = 0
    THEN UNCHANGED backBufferSize
    ELSE IF ~resizeOk
    THEN UNCHANGED backBufferSize
    ELSE /\ m_backBufferWidth' = width
         /\ m_backBufferHeight' = height

\* the dummy implementation: whatever the description, no buffer is made
DX11CreateBuffer(type, usage, size, hasData) ==
    /\ ret' = NullHandle
    /\ UNCHANGED rendererProgVars

\* DrawIndexed() that counts a triangle for every began triple of indices
DX11DrawIndexed_RoundUp(indexCount) ==
    m_stats' = [m_stats EXCEPT !.drawCalls = Add32(@, 1),
                               !.triangles = Add32(@, (indexCount + 2) \div 3),
                               !.vertices = Add32(@, indexCount)]

DX11DrawIndexed(indexCount) ==
    m_stats' = [m_stats EXCEPT !.drawCalls = Add32(@, 1),
                               !.triangles = Add32(@, indexCount \div 3),
                               !.vertices = Add32(@, indexCount)]

\* DestroyBuffer() that clears the statistics of the backend
DX11DestroyBuffer_ResetsStats(buffer) ==
    /\ m_stats' = NoStats
    /\ UNCHANGED <<api, m_initialized, m_windowHandle, backBufferSize,
                   m_frameStartTime, m_currBackBuffer, m_fenceEvent,
                   m_swapChainBuffer, dx12Sync>>

DX11DestroyBuffer(buffer) ==
    UNCHANGED rendererProgVars

DX11CreateColorShader ==
    /\ ret' = NullHandle
    /\ UNCHANGED rendererProgVars

(***************************************************************************)
(* DirectX12Renderer                                                       *)
(***************************************************************************)
\* the state of each back buffer: "null" (released), "PRESENT" or
\* "RENDER_TARGET"
ReleasedBuffers == [i \in 0..(SWAP_CHAIN_BUFFER_COUNT - 1) |-> "null"]
\* the buffers of a swap chain just created or resized
FreshBuffers == [i \in 0..(SWAP_CHAIN_BUFFER_COUNT - 1) |-> "PRESENT"]

\* the transition barrier of BeginFrame and EndFrame on the current buffer
Transition(buffers, index, after) ==
    IF buffers[index] = "null" THEN buffers ELSE [buffers EXCEPT ![index] = after]

DX12Constructed ==
    /\ m_initialized = FALSE
    /\ m_backBufferWidth = DefaultWidth /\ m_backBufferHeight = DefaultHeight
    /\ m_windowHandle = NULL
    /\ m_currBackBuffer = 0
    /\ m_currentFence = 0
    /\ m_fenceEvent = NULL
    /\ m_swapChainBuffer = ReleasedBuffers
    /\ m_stats = NoStats

\* failAt: the first platform call that fails, or "None"; the swap chain
\* cannot be created for a null window
DX12Initialize(windowHandle, width, height, failAt) ==
    IF m_initialized
    THEN /\ ret' = "false"
         /\ UNCHANGED <<m_initialized, m_windowHandle, backBufferSize, m_fenceEvent,
                        m_swapChainBuffer, dx12Sync>>
    ELSE LET fail == IF failAt \in {"Device", "CommandObjects", "FenceEvent"}
                     THEN failAt
                     ELSE IF windowHandle = NULL THEN "SwapChain" ELSE failAt
         IN  /\ m_windowHandle' = windowHandle
             /\ m_backBufferWidth' = width
             /\ m_backBufferHeight' = height
             /\ IF fail \in {"Device", "CommandObjects"}
                THEN UNCHANGED <<m_fenceEvent, dx12Sync>>
                ELSE IF fail = "FenceEvent"
                THEN /\ m_fenceEvent' = NULL
                     /\ SetNewSync([fence |-> m_currentFence, queue |-> <<>>, value |-> 0,
                                    signals |-> <<>>])
                ELSE IF fail \in DX12InitStages
                THEN /\ m_fenceEvent' = FenceEvent1
                     /\ SetNewSync([fence |-> m_currentFence, queue |-> <<>>, value |-> 0,
                                    signals |-> <<>>])
                ELSE /\ m_fenceEvent' = FenceEvent1
                     \* CreateDepthStencilBuffer executes one command list and flushes
                     /\ SetNewSync(FlushCommandQueue(m_currentFence, <<Cmd>>, 0))
             \* CreateRenderTargetViews takes the buffers of the new swap chain
             /\ m_swapChainBuffer' = IF fail \in {"DepthStencil", "None"}
                                     THEN FreshBuffers
                                     ELSE m_swapChainBuffer
             /\ IF fail \in DX12InitStages
                THEN ret' = "false" /\ UNCHANGED m_initialized
                ELSE ret' = "true" /\ m_initialized' = TRUE

DX12WaitForGPU ==
    IF ~m_initialized
    THEN UNCHANGED dx12Sync
    ELSE SetSync(WaitForGPUBody(m_currentFence, gpuQueue, fenceValue))

DX12Shutdown ==
    IF ~m_initialized
    THEN UNCHANGED <<m_initialized, m_fenceEvent, dx12Sync>>
    ELSE /\ SetSync(WaitForGPUBody(m_currentFence, gpuQueue, fenceValue))
         /\ m_fenceEvent' = NULL
         /\ m_initialized' = FALSE

\* resets the command allocator and the command list, records the barrier
DX12BeginFrame ==
    /\ m_swapChainBuffer' = IF m_initialized
                            THEN Transition(m_swapChainBuffer, m_currBackBuffer,
                                            "RENDER_TARGET")
                            ELSE m_swapChainBuffer
    /\ UNCHANGED <<m_stats, dx12Sync>>

\* EndFrame() that submits the command list and does not count the frame
DX12EndFrame_NoFrameCount ==
    IF ~m_initialized
    THEN UNCHANGED <<m_stats, m_swapChainBuffer, dx12Sync>>
    ELSE /\ gpuQueue' = Append(gpuQueue, Cmd)
         /\ m_swapChainBuffer' = Transition(m_swapChainBuffer, m_currBackBuffer,
                                            "PRESENT")
         /\ UNCHANGED <<m_stats, m_currentFence, fenceValue, signalLog>>

DX12EndFrame ==
    IF ~m_initialized
    THEN UNCHANGED <<m_stats, m_swapChainBuffer, dx12Sync>>
    ELSE /\ gpuQueue' = Append(gpuQueue, Cmd)
         /\ m_swapChainBuffer' = Transition(m_swapChainBuffer, m_currBackBuffer,
                                            "PRESENT")
         /\ m_stats' = [m_stats EXCEPT !.frameCount = Add64(@, 1)]
         /\ UNCHANGED <<m_currentFence, fenceValue, signalLog>>

\* Present() that advances the back-buffer index without the modulo
DX12Present_NoWrap(presentOk) ==
    IF ~m_initialized \/ ~presentOk
    THEN UNCHANGED <<m_currBackBuffer, dx12Sync>>
    ELSE /\ m_currBackBuffer' = m_currBackBuffer + 1
         /\ SetSync(FlushCommandQueue(m_currentFence, gpuQueue, fenceValue))

\* presentOk: IDXGISwapChain::Present succeeds
DX12Present(presentOk) ==
    IF ~m_initialized \/ ~presentOk
    THEN UNCHANGED <<m_currBackBuffer, dx12Sync>>
    ELSE /\ m_currBackBuffer' = (m_currBackBuffer + 1) % SWAP_CHAIN_BUFFER_COUNT
         /\ SetSync(FlushCommandQueue(m_currentFence, gpuQueue, fenceValue))

\* OnResize() without the comparison with the stored dimensions
DX12OnResize_NoSizeCheck(width, height, resizeOk, depthOk) ==
    IF ~m_initialized
    THEN UNCHANGED <<backBufferSize, m_currBackBuffer, m_swapChainBuffer, dx12Sync>>
    ELSE LET waited == WaitForGPUBody(m_currentFence, gpuQueue, fenceValue)
         IN  /\ m_backBufferWidth' = width
             /\ m_backBufferHeight' = height
             \* the buffers are released before ResizeBuffers and taken again
             \* by CreateRenderTargetViews after it
             /\ m_swapChainBuffer' = IF resizeOk THEN FreshBuffers
                                     ELSE ReleasedBuffers
             /\ IF ~resizeOk
                THEN /\ SetSync(waited)
                     /\ UNCHANGED m_currBackBuffer
                ELSE /\ m_currBackBuffer' = 0
                     /\ IF depthOk
                        THEN LET flushed == FlushCommandQueue(waited.fence,
                                                              Append(waited.queue, Cmd),
                                                              waited.value)
                             IN  SetSync([flushed EXCEPT
                                            !.signals = waited.signals \o @])
                        ELSE SetSync(waited)

\* resizeOk: ResizeBuffers succeeds; depthOk: the depth buffer is recreated
DX12OnResize(width, height, resizeOk, depthOk) ==
    IF ~m_initialized \/ (width = m_backBufferWidth /\ height = m_backBufferHeight)
    THEN UNCHANGED <<backBufferSize, m_currBackBuffer, m_swapChainBuffer, dx12Sync>>
    ELSE LET waited == WaitForGPUBody(m_currentFence, gpuQueue, fenceValue)
         IN  /\ m_backBufferWidth' = width
             /\ m_backBufferHeight' = height
             \* the buffers are released before ResizeBuffers and taken again
             \* by CreateRenderTargetViews after it
             /\ m_swapChainBuffer' = IF resizeOk THEN FreshBuffers
                                     ELSE ReleasedBuffers
             /\ IF ~resizeOk
                THEN /\ SetSync(waited)
                     /\ UNCHANGED m_currBackBuffer
                ELSE /\ m_currBackBuffer' = 0
                     /\ IF depthOk
                        THEN LET flushed == FlushCommandQueue(waited.fence,
                                                              Append(waited.queue, Cmd),
                                                              waited.value)
                             IN  SetSync([flushed EXCEPT
                                            !.signals = waited.signals \o @])
                        ELSE SetSync(waited)

DX12DrawIndexed(indexCount) ==
    m_stats' = [m_stats EXCEPT !.drawCalls = Add32(@, 1),
                               !.triangles = Add32(@, indexCount \div 3),
                               !.vertices = Add32(@, indexCount)]

DX12CreateBuffer(type, usage, size, hasData) ==
    /\ ret' = NullHandle
    /\ UNCHANGED rendererProgVars

DX12DestroyBuffer(buffer) ==
    UNCHANGED rendererProgVars

DX12CreateColorShader ==
    /\ ret' = NullHandle
    /\ UNCHANGED rendererProgVars

\* the GPU processes the entry at the head of the command queue
GPUProcess ==
    /\ gpuQueue # <<>>
    /\ gpuQueue' = Tail(gpuQueue)
    /\ fenceValue' = IF Head(gpuQueue).kind = "signal" THEN Head(gpuQueue).value
                     ELSE fenceValue
    /\ UNCHANGED <<m_currentFence, signalLog>>

(***************************************************************************)
(* The steps of the renderer: one call of the IRenderer interface on the   *)
(* backend object, or one step of the GPU, together with the bookkeeping   *)
(* of the observation variables.  The guards on the counters keep the      *)
(* model finite.                                                           *)
(***************************************************************************)
NoTrack == <<NullHandle, -1>>
\* no second object
NoObject == [api |-> NullHandle]

CycleRestart(phase) ==
    /\ cycBase' = m_stats'.frameCount
    /\ cycDone' = 0
    /\ cycPhase' = phase

\* the run of well-ordered cycles continues with op, or a new run starts
Observe(op) ==
    /\ rOp' = op
    /\ IF op = "BeginFrame"
       THEN IF m_initialized /\ cycPhase = 0
            THEN cycPhase' = 1 /\ UNCHANGED <<cycBase, cycDone>>
            ELSE CycleRestart(IF m_initialized THEN 1 ELSE 0)
       ELSE IF op = "EndFrame"
       THEN IF m_initialized /\ cycPhase = 1
            THEN cycPhase' = 2 /\ UNCHANGED <<cycBase, cycDone>>
            ELSE CycleRestart(0)
       ELSE IF op = "Present"
       THEN IF m_initialized /\ cycPhase = 2
            THEN cycPhase' = 0 /\ cycDone' = cycDone + 1 /\ UNCHANGED cycBase
            ELSE CycleRestart(0)
       ELSE IF op \in {"Initialize", "InitializeNull", "Shutdown"}
       THEN CycleRestart(0)
       ELSE UNCHANGED <<cycPhase, cycDone, cycBase>>
    /\ IF op = "InitializeNull"
       THEN afterNullInit' = ~m_initialized
       ELSE IF op = "Initialize"
       THEN afterNullInit' = FALSE
       ELSE UNCHANGED afterNullInit
    /\ IF op = "DestroyBuffer"
       THEN TRUE
       ELSE IF op = "CreateBuffer"
       THEN bufTrack' = <<ret', 0>>
       ELSE bufTrack' = NoTrack
    /\ twinPhase' = IF twinPhase = 2 THEN 0 ELSE 1
    /\ UNCHANGED parked

\* the inputs of a step that is given no size
NoSize(ok) == [width |-> 0, height |-> 0, count |-> 0, ok |-> ok]

InitializeOp(h) == IF h = NULL THEN "InitializeNull" ELSE "Initialize"

DX11Only == <<m_frameStartTime>>
DX12Only == <<m_currBackBuffer, m_fenceEvent, m_swapChainBuffer, dx12Sync>>

StepDX11Initialize ==
    /\ api = "DirectX11"
    /\ UNCHANGED <<api, m_stats, DX11Only, DX12Only>>
    /\ UNCHANGED <<inputVars, windowVars>>
    /\ \E h \in Handles, size \in Sizes, failAt \in DX11InitStages \cup {"None"} :
          /\ DX11Initialize(h, size[1], size[2], failAt)
          /\ Observe(InitializeOp(h))
          /\ rIn' = [width |-> size[1], height |-> size[2], count |-> 0,
                    ok |-> failAt = "None"]

StepDX12Initialize ==
    /\ api = "DirectX12"
    /\ m_currentFence < MaxFence
    /\ UNCHANGED <<api, m_stats, DX11Only, m_currBackBuffer>>
    /\ UNCHANGED <<inputVars, windowVars>>
    \* an initialized backend makes no platform call: one failing stage
    \* stands for all of them
    /\ \E h \in Handles, size \in Sizes,
          failAt \in (IF m_initialized THEN {"Device"} ELSE DX12InitStages)
                         \cup {"None"} :
          /\ DX12Initialize(h, size[1], size[2], failAt)
          /\ Observe(InitializeOp(h))
          /\ rIn' = [width |-> size[1], height |-> size[2], count |-> 0,
                    ok |-> failAt = "None"]

StepDX11Shutdown ==
    /\ api = "DirectX11"
    /\ DX11Shutdown
    /\ UNCHANGED <<api, backBufferSize, m_stats, DX11Only, DX12Only>>
    /\ UNCHANGED <<inputVars, windowVars>>
    /\ Observe("Shutdown") /\ ret' = "void" /\ rIn' = NoSize(TRUE)

StepDX12Shutdown ==
    /\ api = "DirectX12"
    /\ m_currentFence < MaxFence /\ Len(gpuQueue) < MaxQueue
    /\ DX12Shutdown
    /\ UNCHANGED <<api, m_windowHandle, backBufferSize, m_stats, DX11Only,
                   m_currBackBuffer, m_swapChainBuffer>>
    /\ UNCHANGED <<inputVars, windowVars>>
    /\ Observe("Shutdown") /\ ret' = "void" /\ rIn' = NoSize(TRUE)

StepDX11BeginFrame ==
    /\ api = "DirectX11"
    /\ \E now \in Times : DX11BeginFrame(now)
    /\ UNCHANGED <<api, m_initialized, m_windowHandle, backBufferSize, DX12Only>>
    /\ UNCHANGED <<inputVars, windowVars>>
    /\ Observe("BeginFrame") /\ ret' = "void" /\ rIn' = NoSize(TRUE)

StepDX12BeginFrame ==
    /\ api = "DirectX12"
    /\ DX12BeginFrame
    /\ UNCHANGED <<api, m_initialized, m_windowHandle, backBufferSize, DX11Only,
                   m_currBackBuffer, m_fenceEvent>>
    /\ UNCHANGED <<inputVars, windowVars>>
    /\ Observe("BeginFrame") /\ ret' = "void" /\ rIn' = NoSize(TRUE)

StepDX11EndFrame ==
    /\ api = "DirectX11"
    /\ \E now \in Times : now >= m_frameStartTime /\ DX11EndFrame(now)
    /\ UNCHANGED <<api, m_initialized, m_windowHandle, backBufferSize, DX11Only,
                   DX12Only>>
    /\ UNCHANGED <<inputVars, windowVars>>
    /\ Observe("EndFrame") /\ ret' = "void" /\ rIn' = NoSize(TRUE)

StepDX12EndFrame ==
    /\ api = "DirectX12"
    /\ m_initialized => (m_stats.frameCount < MaxFrames /\ Len(gpuQueue) < MaxQueue)
    /\ DX12EndFrame
    /\ UNCHANGED <<api, m_initialized, m_windowHandle, backBufferSize, DX11Only,
                   m_currBackBuffer, m_fenceEvent>>
    /\ UNCHANGED <<inputVars, windowVars>>
    /\ Observe("EndFrame") /\ ret' = "void" /\ rIn' = NoSize(TRUE)

StepDX11Present ==
    /\ api = "DirectX11"
    /\ m_initialized => m_stats.frameCount < MaxFrames
    /\ DX11Present
    /\ UNCHANGED <<api, m_initialized, m_windowHandle, backBufferSize, DX11Only,
                   DX12Only>>
    /\ UNCHANGED <<inputVars, windowVars>>
    /\ Observe("Present") /\ ret' = "void" /\ rIn' = NoSize(TRUE)

StepDX12Present ==
    /\ api = "DirectX12"
    /\ m_currentFence < MaxFence
    /\ \E presentOk \in BOOLEAN : DX12Present(presentOk) /\ rIn' = NoSize(presentOk)
    /\ UNCHANGED <<api, m_initialized, m_windowHandle, backBufferSize, m_stats,
                   DX11Only, m_fenceEvent, m_swapChainBuffer>>
    /\ UNCHANGED <<inputVars, windowVars>>
    /\ Observe("Present") /\ ret' = "void"

StepDX11OnResize ==
    /\ api = "DirectX11"
    /\ \E size \in ResizeSizes, resizeOk \in BOOLEAN :
          /\ DX11OnResize(size[1], size[2], resizeOk)
          /\ rIn' = [width |-> size[1], height |-> size[2], count |-> 0,
                    ok |-> resizeOk]
    /\ UNCHANGED <<api, m_initialized, m_windowHandle, m_stats, DX11Only, DX12Only>>
    /\ UNCHANGED <<inputVars, windowVars>>
    /\ Observe("OnResize") /\ ret' = "void"

StepDX12OnResize ==
    /\ api = "DirectX12"
    /\ \E size \in ResizeSizes, resizeOk \in BOOLEAN, depthOk \in BOOLEAN :
          /\ (m_initialized /\ size # <<m_backBufferWidth, m_backBufferHeight>>)
                 => (m_currentFence + 2 <= MaxFence /\ Len(gpuQueue) < MaxQueue)
          /\ DX12OnResize(size[1], size[2], resizeOk, depthOk)
          /\ rIn' = [width |-> size[1], height |-> size[2], count |-> 0,
                    ok |-> resizeOk /\ depthOk]
    /\ UNCHANGED <<api, m_initialized, m_windowHandle, m_stats, DX11Only,
                   m_fenceEvent>>
    /\ UNCHANGED <<inputVars, windowVars>>
    /\ Observe("OnResize") /\ ret' = "void"

\* the inputs of DrawIndexed(indexCount)
DrawInput(indexCount) == [NoSize(TRUE) EXCEPT !.count = indexCount]

\* counts: the index counts given; maxDraws: the bound on drawCalls
StepDX11DrawIndexedOf(counts, maxDraws) ==
    /\ api = "DirectX11"
    /\ m_stats.drawCalls < maxDraws
    /\ \E indexCount \in counts :
          DX11DrawIndexed(indexCount) /\ rIn' = DrawInput(indexCount)
    /\ UNCHANGED <<api, m_initialized, m_windowHandle, backBufferSize, DX11Only,
                   DX12Only>>
    /\ UNCHANGED <<inputVars, windowVars>>
    /\ Observe("DrawIndexed") /\ ret' = "void"

StepDX12DrawIndexedOf(counts, maxDraws) ==
    /\ api = "DirectX12"
    /\ m_stats.drawCalls < maxDraws
    /\ \E indexCount \in counts :
          DX12DrawIndexed(indexCount) /\ rIn' = DrawInput(indexCount)
    /\ UNCHANGED <<api, m_initialized, m_windowHandle, backBufferSize, DX11Only,
                   DX12Only>>
    /\ UNCHANGED <<inputVars, windowVars>>
    /\ Observe("DrawIndexed") /\ ret' = "void"

StepDX11DrawIndexed == StepDX11DrawIndexedOf(IndexCounts, MaxDraws)
StepDX12DrawIndexed == StepDX12DrawIndexedOf(IndexCounts, MaxDraws)

CreateBufferOp(size, hasData) ==
    IF size > 0 /\ hasData THEN "CreateBuffer" ELSE "CreateBufferInvalid"

\* DestroyBuffer(buffer) follows the tracked CreateBuffer, or ends the tracking
TrackDestroy(buffer) ==
    bufTrack' = IF bufTrack # NoTrack /\ buffer = bufTrack[1]
                THEN <<buffer, IF bufTrack[2] < 2 THEN bufTrack[2] + 1 ELSE 2>>
                ELSE NoTrack

StepDX11CreateBuffer ==
    /\ api = "DirectX11"
    /\ \E type \in BufferTypes, usage \in BufferUsages, size \in BufferSizes,
          hasData \in BOOLEAN :
          /\ DX11CreateBuffer(type, usage, size, hasData)
          /\ Observe(CreateBufferOp(size, hasData))
    /\ UNCHANGED <<inputVars, windowVars>>
    /\ rIn' = NoSize(TRUE)

StepDX12CreateBuffer ==
    /\ api = "DirectX12"
    /\ \E type \in BufferTypes, usage \in BufferUsages, size \in BufferSizes,
          hasData \in BOOLEAN :
          /\ DX12CreateBuffer(type, usage, size, hasData)
          /\ Observe(CreateBufferOp(size, hasData))
    /\ UNCHANGED <<inputVars, windowVars>>
    /\ rIn' = NoSize(TRUE)

StepDX11DestroyBuffer ==
    /\ api = "DirectX11"
    /\ \E buffer \in ResourceHandles :
          DX11DestroyBuffer(buffer) /\ TrackDestroy(buffer)
    /\ UNCHANGED <<inputVars, windowVars>>
    /\ Observe("DestroyBuffer") /\ ret' = "void" /\ rIn' = NoSize(TRUE)

StepDX12DestroyBuffer ==
    /\ api = "DirectX12"
    /\ \E buffer \in ResourceHandles :
          DX12DestroyBuffer(buffer) /\ TrackDestroy(buffer)
    /\ UNCHANGED <<inputVars, windowVars>>
    /\ Observe("DestroyBuffer") /\ ret' = "void" /\ rIn' = NoSize(TRUE)

StepDX11CreateColorShader ==
    /\ api = "DirectX11"
    /\ DX11CreateColorShader
    /\ UNCHANGED <<inputVars, windowVars>>
    /\ Observe("CreateColorShader") /\ rIn' = NoSize(TRUE)

StepDX12CreateColorShader ==
    /\ api = "DirectX12"
    /\ DX12CreateColorShader
    /\ UNCHANGED <<inputVars, windowVars>>
    /\ Observe("CreateColorShader") /\ rIn' = NoSize(TRUE)

\* SetVertexBuffer, SetIndexBuffer, SetPrimitiveTopology, SetShader: both
\* backends only log the call
StepDrawSetup ==
    /\ UNCHANGED rendererProgVars
    /\ UNCHANGED <<inputVars, windowVars>>
    /\ Observe("DrawSetup") /\ ret' = "void" /\ rIn' = NoSize(TRUE)

\* DirectX11Renderer::WaitForGPU flushes the immediate context
StepDX11WaitForGPU ==
    /\ api = "DirectX11"
    /\ UNCHANGED rendererProgVars
    /\ UNCHANGED <<inputVars, windowVars>>
    /\ Observe("WaitForGPU") /\ ret' = "void" /\ rIn' = NoSize(TRUE)

StepDX12WaitForGPU ==
    /\ api = "DirectX12"
    /\ m_currentFence < MaxFence /\ Len(gpuQueue) < MaxQueue
    /\ DX12WaitForGPU
    /\ UNCHANGED <<api, m_initialized, m_windowHandle, backBufferSize, m_stats,
                   DX11Only, m_currBackBuffer, m_fenceEvent,
                   m_swapChainBuffer>>
    /\ UNCHANGED <<inputVars, windowVars>>
    /\ Observe("WaitForGPU") /\ ret' = "void" /\ rIn' = NoSize(TRUE)

StepGPU ==
    /\ api = "DirectX12"
    /\ GPUProcess
    /\ UNCHANGED <<api, m_initialized, m_windowHandle, backBufferSize, m_stats,
                   DX11Only, m_currBackBuffer, m_fenceEvent,
                   m_swapChainBuffer>>
    /\ UNCHANGED <<inputVars, windowVars>>
    /\ Observe("GPU") /\ ret' = "void" /\ rIn' = NoSize(TRUE)

RendererObsInit ==
    /\ rOp = "Construct"
    /\ ret = "void"
    /\ rIn = NoSize(TRUE)
    /\ cycPhase = 0 /\ cycDone = 0 /\ cycBase = 0
    /\ afterNullInit = FALSE
    /\ bufTrack = NoTrack
    /\ parked = NoObject /\ twinPhase = 0

\* the fields of the other backend are not part of the object
DX11ObjectInit ==
    /\ api = "DirectX11"
    /\ DX11Constructed
    /\ m_currBackBuffer = 0 /\ m_currentFence = 0 /\ m_fenceEvent = NULL
    /\ m_swapChainBuffer = ReleasedBuffers
    /\ gpuQueue = <<>> /\ fenceValue = 0 /\ signalLog = <<>>

DX12ObjectInit ==
    /\ api = "DirectX12"
    /\ DX12Constructed
    /\ m_frameStartTime = 0
    /\ gpuQueue = <<>> /\ fenceValue = 0 /\ signalLog = <<>>

RendererInit ==
    /\ DX11ObjectInit \/ DX12ObjectInit
    /\ RendererObsInit

NextRenderer ==
    \/ StepDX11Initialize \/ StepDX12Initialize
    \/ StepDX11Shutdown \/ StepDX12Shutdown
    \/ StepDX11BeginFrame \/ StepDX12BeginFrame
    \/ StepDX11EndFrame \/ StepDX12EndFrame
    \/ StepDX11Present \/ StepDX12Present
    \/ StepDX11OnResize \/ StepDX12OnResize
    \/ StepDX11DrawIndexed \/ StepDX12DrawIndexed
    \/ StepDrawSetup
    \/ StepDX11CreateBuffer \/ StepDX12CreateBuffer
    \/ StepDX11DestroyBuffer \/ StepDX12DestroyBuffer
    \/ StepDX11CreateColorShader \/ StepDX12CreateColorShader
    \/ StepDX11WaitForGPU \/ StepDX12WaitForGPU
    \/ StepGPU

(***************************************************************************)
(* SpecKeys: keys and buttons, with the cursor resting at the origin.      *)
(* SpecMouse: cursor movement, the left button and the wheel.              *)
(* SpecRenderer: one backend object, DirectX 11 or DirectX 12.             *)
(***************************************************************************)
Origin == {<<0, 0>>}

KeysInitialize == StepInitialize(Handles, Origin) /\ UNCHANGED <<rendererVars, windowVars>>
KeysUpdate == StepUpdate(Origin) /\ UNCHANGED <<rendererVars, windowVars>>
KeysResetInputState == StepResetInputState /\ UNCHANGED <<rendererVars, windowVars>>
KeysKeyDown == StepKeyDown(KeyCodes) /\ UNCHANGED <<rendererVars, windowVars>>
KeysKeyUp == StepKeyUp(KeyCodes) /\ UNCHANGED <<rendererVars, windowVars>>
KeysMouseButtonDown == StepMouseButtonDown(MouseButtons, Origin) /\ UNCHANGED <<rendererVars, windowVars>>
KeysMouseButtonUp == StepMouseButtonUp(MouseButtons, Origin) /\ UNCHANGED <<rendererVars, windowVars>>

NextKeys ==
    \/ KeysInitialize
    \/ KeysUpdate
    \/ KeysResetInputState
    \/ KeysKeyDown
    \/ KeysKeyUp
    \/ KeysMouseButtonDown
    \/ KeysMouseButtonUp

MouseInitialize == StepInitialize(Handles, Points) /\ UNCHANGED <<rendererVars, windowVars>>
MouseUpdate == StepUpdate(Points) /\ UNCHANGED <<rendererVars, windowVars>>
MouseMouseButtonDown == StepMouseButtonDown({0}, Points) /\ UNCHANGED <<rendererVars, windowVars>>
MouseMouseButtonUp == StepMouseButtonUp({0}, Points) /\ UNCHANGED <<rendererVars, windowVars>>
MouseMouseMove == StepMouseMove(Points) /\ UNCHANGED <<rendererVars, windowVars>>
MouseMouseWheel == StepMouseWheel /\ UNCHANGED <<rendererVars, windowVars>>

NextMouse ==
    \/ MouseInitialize
    \/ MouseUpdate
    \/ MouseMouseButtonDown
    \/ MouseMouseButtonUp
    \/ MouseMouseMove
    \/ MouseMouseWheel

vars == <<inputVars, rendererVars, windowVars>>

\* the input router beside a constructed DirectX 11 backend
InitInput == InputInit /\ DX11ObjectInit /\ RendererObsInit /\ WindowInit
\* a backend of either kind beside a constructed input router
InitRenderer == InputInit /\ RendererInit /\ WindowInit

SpecKeys == InitInput /\ [][NextKeys]_vars
SpecMouse == InitInput /\ [][NextMouse]_vars
SpecRenderer == InitRenderer /\ [][NextRenderer]_vars

(***************************************************************************)
(* SpecCallbacks: the four handlers and the messages that invoke them,     *)
(* without Update().  SpecCursor: capture, cursor visibility and Shutdown. *)
(***************************************************************************)
CallbackKeyCodes == {87, 7}

NextCallbacks ==
    \/ StepSetCallback /\ UNCHANGED <<rendererVars, windowVars>>
    \/ StepClearCallbacks /\ UNCHANGED <<rendererVars, windowVars>>
    \/ StepKeyDown(CallbackKeyCodes) /\ UNCHANGED <<rendererVars, windowVars>>
    \/ StepKeyUp(CallbackKeyCodes) /\ UNCHANGED <<rendererVars, windowVars>>
    \/ StepMouseButtonDown({0}, Origin) /\ UNCHANGED <<rendererVars, windowVars>>
    \/ StepMouseButtonUp({0}, Origin) /\ UNCHANGED <<rendererVars, windowVars>>
    \/ StepMouseMove(Origin) /\ UNCHANGED <<rendererVars, windowVars>>
    \/ StepMouseWheel /\ UNCHANGED <<rendererVars, windowVars>>

SpecCallbacks == InitInput /\ [][NextCallbacks]_vars

NextCursor ==
    \/ StepInitialize(Handles, Origin) /\ UNCHANGED <<rendererVars, windowVars>>
    \/ StepSetCallback /\ UNCHANGED <<rendererVars, windowVars>>
    \/ StepShowCursor /\ UNCHANGED <<rendererVars, windowVars>>
    \/ StepCaptureMouse /\ UNCHANGED <<rendererVars, windowVars>>
    \/ StepShutdown /\ UNCHANGED <<rendererVars, windowVars>>

SpecCursor == InitInput /\ [][NextCursor]_vars

(***************************************************************************)
(* SpecWindow: one window and its input router, driven as the application  *)
(* loop drives them.                                                       *)
(***************************************************************************)
NextWindow ==
    \/ StepWindowInitialize(Origin) /\ UNCHANGED rendererVars
    \/ StepWindowShutdown /\ UNCHANGED rendererVars
    \/ StepWindowCall /\ UNCHANGED rendererVars
    \/ StepWindowUpdateBegin /\ UNCHANGED rendererVars
    \/ StepWindowDispatchKey(CallbackKeyCodes) /\ UNCHANGED rendererVars
    \/ StepWindowDispatchClose /\ UNCHANGED rendererVars
    \/ StepWindowUpdateEnd(Origin) /\ UNCHANGED rendererVars

SpecWindow == InitInput /\ [][NextWindow]_vars

(***************************************************************************)
(* SpecFrames: DirectX12Renderer driven as the application loop drives it: *)
(* BeginFrame, draws, EndFrame, Present in this order, with Initialize,    *)
(* Shutdown and OnResize only between a Present and the next BeginFrame.   *)
(* The swap-chain calls may fail.                                          *)
(***************************************************************************)
InitFrames == InputInit /\ DX12ObjectInit /\ RendererObsInit /\ WindowInit

NextFrames ==
    \/ cycPhase = 0 /\ StepDX12Initialize
    \/ cycPhase = 0 /\ StepDX12Shutdown
    \/ cycPhase = 0 /\ StepDX12OnResize
    \/ cycPhase = 0 /\ m_initialized /\ StepDX12BeginFrame
    \/ cycPhase = 1 /\ StepDX12DrawIndexed
    \/ cycPhase = 1 /\ StepDX12EndFrame
    \/ cycPhase = 2 /\ StepDX12Present
    \/ StepGPU

SpecFrames == InitFrames /\ [][NextFrames]_vars

(***************************************************************************)
(* SpecTwin: a DirectX11Renderer and a DirectX12Renderer given the same    *)
(* IRenderer calls with the same arguments, every platform call            *)
(* succeeding.  One object is in the renderer variables and the other in   *)
(* parked; after each call the two change places and the other object      *)
(* makes the same call.                                                    *)
(***************************************************************************)
\* the object in the renderer variables, with the result of its last call
LoadedObject ==
    [api |-> api, m_initialized |-> m_initialized, m_windowHandle |-> m_windowHandle,
     m_backBufferWidth |-> m_backBufferWidth, m_backBufferHeight |-> m_backBufferHeight,
     m_stats |-> m_stats, m_frameStartTime |-> m_frameStartTime,
     m_currBackBuffer |-> m_currBackBuffer, m_fenceEvent |-> m_fenceEvent,
     m_swapChainBuffer |-> m_swapChainBuffer, m_currentFence |-> m_currentFence,
     gpuQueue |-> gpuQueue, fenceValue |-> fenceValue, signalLog |-> signalLog,
     ret |-> ret]

\* the object of backend a after its constructor
ConstructedObject(a) ==
    [api |-> a, m_initialized |-> FALSE, m_windowHandle |-> NULL,
     m_backBufferWidth |-> IF a = "DirectX12" THEN DefaultWidth ELSE 0,
     m_backBufferHeight |-> IF a = "DirectX12" THEN DefaultHeight ELSE 0,
     m_stats |-> NoStats, m_frameStartTime |-> 0,
     m_currBackBuffer |-> 0, m_fenceEvent |-> NULL,
     m_swapChainBuffer |-> ReleasedBuffers, m_currentFence |-> 0,
     gpuQueue |-> <<>>, fenceValue |-> 0, signalLog |-> <<>>,
     ret |-> "void"]

StepSwitchBackend ==
    /\ twinPhase = 1
    /\ twinPhase' = 2
    /\ parked' = LoadedObject
    /\ api' = parked.api
    /\ m_initialized' = parked.m_initialized
    /\ m_windowHandle' = parked.m_windowHandle
    /\ m_backBufferWidth' = parked.m_backBufferWidth
    /\ m_backBufferHeight' = parked.m_backBufferHeight
    /\ m_stats' = parked.m_stats
    /\ m_frameStartTime' = parked.m_frameStartTime
    /\ m_currBackBuffer' = parked.m_currBackBuffer
    /\ m_fenceEvent' = parked.m_fenceEvent
    /\ m_swapChainBuffer' = parked.m_swapChainBuffer
    /\ m_currentFence' = parked.m_currentFence
    /\ gpuQueue' = parked.gpuQueue
    /\ fenceValue' = parked.fenceValue
    /\ signalLog' = parked.signalLog
    /\ UNCHANGED <<rOp, ret, rIn, cycPhase, cycDone, cycBase, afterNullInit, bufTrack>>
    /\ UNCHANGED <<inputVars, windowVars>>

\* every platform call of the step succeeded, and the second object of a
\* pair made the call of the first with its arguments
TwinCall ==
    /\ twinPhase # 1
    /\ rIn'.ok
    /\ rOp' # "InitializeNull"
    /\ twinPhase = 2 => (rOp' = rOp /\ rIn' = rIn)

InitTwin ==
    /\ InputInit /\ WindowInit
    /\ DX11ObjectInit \/ DX12ObjectInit
    /\ rOp = "Construct"
    /\ ret = "void"
    /\ rIn = NoSize(TRUE)
    /\ cycPhase = 0 /\ cycDone = 0 /\ cycBase = 0
    /\ afterNullInit = FALSE
    /\ bufTrack = NoTrack
    /\ twinPhase = 0
    /\ parked = ConstructedObject(IF api = "DirectX11" THEN "DirectX12"
                                  ELSE "DirectX11")

NextTwin ==
    \/ StepDX11Initialize /\ TwinCall
    \/ StepDX12Initialize /\ TwinCall
    \/ StepDX11Shutdown /\ TwinCall
    \/ StepDX12Shutdown /\ TwinCall
    \/ StepDX11BeginFrame /\ TwinCall
    \/ StepDX12BeginFrame /\ TwinCall
    \/ StepDX11EndFrame /\ TwinCall
    \/ StepDX12EndFrame /\ TwinCall
    \/ StepDX11Present /\ TwinCall
    \/ StepDX12Present /\ TwinCall
    \/ StepDX11OnResize /\ TwinCall
    \/ StepDX12OnResize /\ TwinCall
    \/ StepDX11DrawIndexed /\ TwinCall
    \/ StepDX12DrawIndexed /\ TwinCall
    \/ StepSwitchBackend

SpecTwin == InitTwin /\ [][NextTwin]_vars

(***************************************************************************)
(* RendererFactory.  env is the build and the machine: the platform the    *)
(* code is compiled for, whether D3D12CreateDevice succeeds, and whether   *)
(* std::make_unique of each DirectX backend returns (it may throw).        *)
(***************************************************************************)
\* enum class RendererAPI
RendererAPIs == {"Auto", "DirectX11", "DirectX12", "Vulkan", "OpenGL", "Metal"}

\* requested is the RendererAPI the application asks IsAPISupported and
\* CreateRenderer(RendererAPI) about
Envs ==
    [platform : {"Windows"}, dx12Device : BOOLEAN,
     dx11Constructs : BOOLEAN, dx12Constructs : BOOLEAN,
     requested : RendererAPIs]
    \cup [platform : {"Linux", "MacOS"}, dx12Device : {FALSE},
          dx11Constructs : {FALSE}, dx12Constructs : {FALSE},
          requested : RendererAPIs]

IsDirectX11Available(env) == env.platform = "Windows"
IsDirectX12Available(env) == env.platform = "Windows" /\ env.dx12Device
IsVulkanAvailable(env) == FALSE
IsOpenGLAvailable(env) == env.platform \in {"Windows", "Linux", "MacOS"}
IsMetalAvailable(env) == env.platform = "MacOS"

\* the check of DirectX 12 is commented out in the source
GetBestAvailableAPI(env) ==
    IF env.platform = "Windows"
    THEN IF IsDirectX11Available(env) THEN "DirectX11"
         ELSE IF IsVulkanAvailable(env) THEN "Vulkan"
         ELSE "OpenGL"
    ELSE IF env.platform = "MacOS"
    THEN IF IsMetalAvailable(env) THEN "Metal"
         ELSE IF IsVulkanAvailable(env) THEN "Vulkan"
         ELSE "OpenGL"
    ELSE IF env.platform = "Linux"
    THEN IF IsVulkanAvailable(env) THEN "Vulkan" ELSE "OpenGL"
    ELSE "OpenGL"

IsAPISupported(requested, env) ==
    CASE requested = "DirectX12" -> IsDirectX12Available(env)
      [] requested = "DirectX11" -> IsDirectX11Available(env)
      [] requested = "Vulkan" -> IsVulkanAvailable(env)
      [] requested = "OpenGL" -> IsOpenGLAvailable(env)
      [] requested = "Metal" -> IsMetalAvailable(env)
      [] requested = "Auto" -> TRUE
      [] OTHER -> FALSE

\* CreateRenderer(RendererAPI api): the backend of the object returned, or
\* nullptr; the Vulkan, OpenGL and Metal renderers are not implemented
RECURSIVE CreateRendererOf(_, _)
CreateRendererOf(requested, env) ==
    IF requested = "Auto"
    THEN CreateRendererOf(GetBestAvailableAPI(env), env)
    ELSE IF requested = "DirectX12"
    THEN IF IsDirectX12Available(env) /\ env.dx12Constructs
         THEN "DirectX12" ELSE NullHandle
    ELSE IF requested = "DirectX11"
    THEN IF IsDirectX11Available(env) /\ env.dx11Constructs
         THEN "DirectX11" ELSE NullHandle
    ELSE NullHandle

\* CreateRenderer()
CreateRenderer(env) == CreateRendererOf(GetBestAvailableAPI(env), env)

(***************************************************************************)
(* SpecFactory: the object RendererFactory::CreateRenderer() returns in    *)
(* each environment, and the frames drawn with it.                         *)
(***************************************************************************)
FactoryInit ==
    /\ InputInit
    /\ WindowInit
    /\ \E env \in Envs : rIn = env /\ ret = CreateRenderer(env)
    /\ rOp = "CreateRenderer"
    /\ cycPhase = 0 /\ cycDone = 0 /\ cycBase = 0
    /\ afterNullInit = FALSE
    /\ bufTrack = NoTrack
    /\ parked = NoObject /\ twinPhase = 0
    /\ IF ret = "DirectX12" THEN DX12ObjectInit
       ELSE IF ret = "DirectX11" THEN DX11ObjectInit
       ELSE \* no object
            /\ api = NullHandle
            /\ DX11Constructed
            /\ m_currBackBuffer = 0 /\ m_currentFence = 0 /\ m_fenceEvent = NULL
            /\ m_swapChainBuffer = ReleasedBuffers
            /\ gpuQueue = <<>> /\ fenceValue = 0 /\ signalLog = <<>>

NextFactory ==
    \/ StepDX11Initialize
    \/ StepDX11BeginFrame \/ StepDX11EndFrame \/ StepDX11Present
    \/ StepDX11DrawIndexed

SpecFactory == FactoryInit /\ [][NextFactory]_vars

(***************************************************************************)
(* SpecDraw: the draw statistics, with index counts that are and are not   *)
(* multiples of 3, inside and outside the frames of DirectX 11.            *)
(***************************************************************************)
DrawDX11DrawIndexed == StepDX11DrawIndexedOf(DrawIndexCounts, MaxDrawRun)
DrawDX12DrawIndexed == StepDX12DrawIndexedOf(DrawIndexCounts, MaxDrawRun)

NextDraw ==
    \/ StepDX11Initialize
    \/ StepDX11BeginFrame \/ StepDX11EndFrame \/ StepDX11Present
    \/ DrawDX11DrawIndexed \/ DrawDX12DrawIndexed

SpecDraw == InitRenderer /\ [][NextDraw]_vars

(***************************************************************************)
(* Properties of Win32Input                                                *)
(***************************************************************************)
\* C1: for a key k that is up, after a key-down event for k followed by
\* exactly one Update(), WasKeyPressed(k) is true; after one further Update()
\* with no key event for k in between, WasKeyPressed(k) is false.
C1_PressedAfterOneUpdate ==
    \A k \in ModelKeys :
        inOp = "Update" =>
            /\ pressAge[k] = 1 => WasKeyPressed(k)
            /\ pressAge[k] = 2 => ~WasKeyPressed(k)

\* 'W' went down while up, and Update() has run exactly once since
C1_Witness ==
    /\ inOp = "Update"
    /\ pressAge[87] = 1
    /\ IsKeyDown(87)

\* C2: Update() leaves in previousKeyState / previousMouseState what
\* currentKeyState / currentMouseState held when it was called, and no raw
\* input event modifies previousKeyState or previousMouseState.
C2_PreviousIsSnapshot ==
    [][/\ inOp' = "Update" =>
            /\ m_previousKeyState' = m_currentKeyState
            /\ m_previousMouseState' = m_currentMouseState
       /\ inOp' \in InputEvents =>
            UNCHANGED <<m_previousKeyState, m_previousMouseState>>]_vars

\* an event has changed the current buffers after an Update() that
\* snapshotted a held key and a held button
C2_Witness ==
    /\ inOp \in InputEvents
    /\ m_previousKeyState # {} /\ m_previousMouseState # {}
    /\ m_currentKeyState # m_previousKeyState
    /\ m_currentMouseState # m_previousMouseState

\* C3: after an Update() no key and no mouse button shows a pressed or a
\* released edge, so a run of Update() calls with no input event between
\* them reports none.
C3_NoPhantomEdges ==
    inOp = "Update" =>
        /\ \A k \in 0..(MAX_KEYS - 1) : ~WasKeyPressed(k) /\ ~WasKeyReleased(k)
        /\ \A b \in MouseButtons :
              ~WasMouseButtonPressed(b) /\ ~WasMouseButtonReleased(b)

\* a second Update() in a row, with a key and a button held
C3_Witness ==
    /\ inOp = "Update"
    /\ \E k \in ModelKeys : pressAge[k] = 2 /\ IsKeyDown(k)
    /\ \E b \in MouseButtons : IsMouseButtonDown(b)

\* C4: the mouse delta after Update() is the position that Update() sampled
\* minus the position held when the previous Update() (or Initialize)
\* returned, whatever mouse events came in between, and it is (0,0) on the
\* first Update() after Initialize.
C4_DeltaSinceLastUpdate ==
    [][inOp' = "Update" =>
          IF firstUpdatePending
          THEN m_mouseDeltaX' = 0 /\ m_mouseDeltaY' = 0
          ELSE /\ m_mouseDeltaX' = m_mouseX' - heldX
               /\ m_mouseDeltaY' = m_mouseY' - heldY]_vars

\* an Update() on an initialized router that reports a movement
C4_Witness ==
    /\ inOp = "Update"
    /\ m_hwnd # NULL
    /\ ~firstUpdatePending
    /\ m_mouseDeltaX # 0 \/ m_mouseDeltaY # 0

(***************************************************************************)
(* Properties of the renderer backends                                     *)
(***************************************************************************)
FrameOps == {"BeginFrame", "DrawSetup", "DrawIndexed", "EndFrame", "Present"}

\* C5: on an initialized backend, N repetitions of BeginFrame(); EndFrame();
\* Present() increase GetStats().frameCount by exactly N, on DirectX 11 and
\* on DirectX 12: at the end of the N-th cycle the count is its value at
\* the start of the run plus N.
C5_FrameCountPerCycle ==
    (m_initialized /\ cycPhase = 0) => m_stats.frameCount = cycBase + cycDone

\* two full cycles have run on the DirectX 12 backend
C5_Witness ==
    /\ api = "DirectX12"
    /\ m_initialized
    /\ rOp = "Present"
    /\ cycPhase = 0 /\ cycDone >= 2

\* C6: frameCount is incremented at Present and nowhere else: a Present on
\* an initialized backend increases it by exactly 1, and BeginFrame,
\* EndFrame, the draw calls and OnResize leave it unchanged.
C6_FrameCountOnlyAtPresent ==
    [][/\ (rOp' = "Present" /\ m_initialized) =>
            m_stats'.frameCount = m_stats.frameCount + 1
       /\ rOp' \in {"BeginFrame", "EndFrame", "DrawSetup", "DrawIndexed", "OnResize"} =>
            m_stats'.frameCount = m_stats.frameCount]_vars

\* EndFrame has returned on an initialized DirectX 12 backend
C6_Witness ==
    /\ api = "DirectX12"
    /\ m_initialized
    /\ rOp = "EndFrame"
    /\ m_stats.frameCount > 0

\* C7: after BeginFrame() on an initialized backend, drawCalls, vertices and
\* triangles are all 0, whatever draw calls preceded it.
C7_BeginFrameResetsDrawStats ==
    (rOp = "BeginFrame" /\ m_initialized) =>
        /\ m_stats.drawCalls = 0
        /\ m_stats.vertices = 0
        /\ m_stats.triangles = 0

\* BeginFrame has returned on an initialized DirectX 12 backend that had
\* counted a draw call
C7_Witness ==
    /\ api = "DirectX12"
    /\ m_initialized
    /\ rOp = "BeginFrame"
    /\ m_stats.drawCalls > 0

\* C8: while IsInitialized() is false, every frame operation (BeginFrame,
\* the draw-setup and draw calls, EndFrame, Present) leaves every field of
\* GetStats() unchanged.
C8_FrameOpsNoOpWhenUninitialized ==
    [][(~m_initialized /\ rOp' \in FrameOps) => m_stats' = m_stats]_vars

\* DrawIndexed has returned on a backend that is not initialized
C8_Witness ==
    /\ ~m_initialized
    /\ rOp = "DrawIndexed"

\* C9: Initialize(nullptr, w, h) on an uninitialized backend returns false
\* and leaves IsInitialized() false, and every later call other than
\* Initialize leaves the stats, the dimensions and the initialized flag
\* unchanged.
C9_NullInitializeThenNoOps ==
    [][/\ (rOp' = "InitializeNull" /\ afterNullInit') =>
            (ret' = "false" /\ ~m_initialized')
       /\ (afterNullInit /\ rOp' \notin {"Initialize", "InitializeNull", "GPU"}) =>
            UNCHANGED <<m_stats, backBufferSize, m_initialized>>]_vars

\* a call other than Initialize has returned after Initialize(nullptr, w, h)
\* failed
C9_Witness ==
    /\ afterNullInit
    /\ ~m_initialized
    /\ rOp \in FrameOps \cup {"OnResize", "Shutdown", "WaitForGPU"}

\* C10: when WaitForGPU() returns on an initialized DirectX 12 backend, no
\* command list submitted before the call is still waiting in the queue.
C10_WaitForGPUDrains ==
    (api = "DirectX12" /\ m_initialized /\ rOp = "WaitForGPU") =>
        \A i \in DOMAIN gpuQueue : gpuQueue[i].kind # "cmd"

\* WaitForGPU has returned on an initialized DirectX 12 backend after a frame
\* was submitted
C10_Witness ==
    /\ api = "DirectX12"
    /\ m_initialized
    /\ rOp = "WaitForGPU"
    /\ m_stats.frameCount > 0

\* the command lists submitted by ExecuteCommandLists that the GPU has not
\* yet completed
PendingFrames == Cardinality({i \in DOMAIN gpuQueue : gpuQueue[i].kind = "cmd"})

\* the frames EndFrame has submitted in the current run of well-ordered
\* BeginFrame; EndFrame; Present cycles (DirectX 12 counts them in EndFrame)
FramesInRun == m_stats.frameCount - cycBase

\* C11: in a sequence of frame cycles on the DirectX 12 backend, also when
\* the swap-chain Present fails, the frames EndFrame has submitted and the
\* GPU has not yet completed never number more than the back-buffer count.
\* (The queue is first-in first-out: when no more frames are pending than
\* the run has submitted, every pending frame is one of the run.)
C11_FramesInFlightBounded ==
    (api = "DirectX12" /\ m_initialized /\ PendingFrames <= FramesInRun) =>
        PendingFrames <= SWAP_CHAIN_BUFFER_COUNT

\* a cycle whose Present failed has ended with its frame still pending
C11_Witness ==
    /\ api = "DirectX12"
    /\ m_initialized
    /\ rOp = "Present"
    /\ cycPhase = 0 /\ cycDone >= 1
    /\ PendingFrames >= 1 /\ PendingFrames <= FramesInRun

StrictlyIncreasing(seq) ==
    \A i, j \in DOMAIN seq : i < j => seq[i] < seq[j]

\* C12: m_currentFence never decreases, and every value signalled on the
\* command queue, by FlushCommandQueue or by WaitForGPU, is strictly greater
\* than every value signalled before it.
C12_FenceValuesIncrease ==
    [][/\ m_currentFence' >= m_currentFence
       /\ StrictlyIncreasing(signalLog')]_vars

\* WaitForGPU has signalled after FlushCommandQueue on the same fence
C12_Witness ==
    /\ api = "DirectX12"
    /\ m_initialized
    /\ rOp = "WaitForGPU"
    /\ Len(signalLog) >= 2

BackBufferIndices == 0..(SWAP_CHAIN_BUFFER_COUNT - 1)

\* C13: the DirectX 12 back-buffer index is in [0, SWAP_CHAIN_BUFFER_COUNT)
\* in every reachable state, and each successful Present changes it to
\* (index + 1) mod SWAP_CHAIN_BUFFER_COUNT.  A Present that succeeded is the
\* one that went on to FlushCommandQueue, which advances m_currentFence.
C13_BackBufferIndexCycles ==
    [][/\ m_currBackBuffer \in BackBufferIndices
       /\ m_currBackBuffer' \in BackBufferIndices
       /\ (api = "DirectX12" /\ rOp' = "Present" /\ m_currentFence' # m_currentFence) =>
            m_currBackBuffer' = (m_currBackBuffer + 1) % SWAP_CHAIN_BUFFER_COUNT]_vars

\* a Present has succeeded from index 0 and flushed the queue
C13_Witness ==
    /\ api = "DirectX12"
    /\ m_initialized
    /\ rOp = "Present"
    /\ m_currBackBuffer = 1
    /\ gpuQueue = <<>> /\ fenceValue = m_currentFence

\* C14: Shutdown() can be called in any state (never initialized,
\* initialized, after a failed Initialize, already shut down); afterwards
\* IsInitialized() is false, and a second Shutdown() changes no state.
C14_ShutdownIdempotent ==
    [][/\ rOp' = "Shutdown" => ~m_initialized'
       /\ (rOp = "Shutdown" /\ rOp' = "Shutdown") => UNCHANGED rendererProgVars]_vars

\* Shutdown has returned on a backend that had been initialized and had
\* presented a frame
C14_Witness ==
    /\ rOp = "Shutdown"
    /\ ~m_initialized
    /\ m_windowHandle = NULL
    /\ m_stats.frameCount > 0

\* C15: when DirectX12Renderer::Initialize fails after the command objects
\* and the fence event were created, a following Shutdown() releases them:
\* no fence event handle is open after Shutdown has returned.
C15_ShutdownClosesFenceEvent ==
    (api = "DirectX12" /\ rOp = "Shutdown") => m_fenceEvent = NULL

\* Shutdown has returned on a DirectX 12 backend whose Initialize had failed
\* after CreateCommandObjects
C15_Witness ==
    /\ api = "DirectX12"
    /\ rOp = "Shutdown"
    /\ ~m_initialized
    /\ m_stats.frameCount = 0
    /\ m_fenceEvent # NULL

\* the size given to the call of the last step is the stored one
SameSizeGiven ==
    rIn'.width = m_backBufferWidth /\ rIn'.height = m_backBufferHeight

\* C16: OnResize(w, h) with (w, h) equal to the stored back-buffer
\* dimensions, or on a backend that is not initialized, changes no backend
\* state: dimensions, back-buffer index, fence value, stats.
C16_OnResizeNoOp ==
    [][(rOp' = "OnResize" /\ (~m_initialized \/ SameSizeGiven)) =>
          UNCHANGED rendererProgVars]_vars

\* OnResize with the stored dimensions has returned on an initialized
\* DirectX 12 backend whose back-buffer index is 1: a resize would have
\* reset the index
C16_Witness ==
    /\ api = "DirectX12"
    /\ m_initialized
    /\ rOp = "OnResize"
    /\ rIn.ok
    /\ rIn.width = m_backBufferWidth /\ rIn.height = m_backBufferHeight
    /\ m_currBackBuffer = 1

C18_SecondBeginFrameIgnored ==
    [][(m_initialized /\ cycPhase = 1 /\ rOp' = "BeginFrame") =>
           /\ m_stats' = m_stats
           /\ m_frameStartTime' = m_frameStartTime
           /\ m_currBackBuffer' = m_currBackBuffer]_vars

\* RendererFactory::CreateRenderer(): the backend GetBestAvailableAPI() names
\* on Windows
BestAvailableAPI == "DirectX11"

\* C19: on an initialized renderer made by RendererFactory::CreateRenderer(),
\* CreateBuffer with a valid description (size > 0, non-null data, vertex or
\* index buffer, immutable) and CreateColorShader() each return a non-null
\* handle.
C19_CreateReturnsHandle ==
    (/\ api = BestAvailableAPI
     /\ m_initialized
     /\ rOp \in {"CreateBuffer", "CreateColorShader"}) => ret # NullHandle

\* CreateBuffer with a valid description has returned on the initialized
\* renderer of the factory
C19_Witness ==
    /\ api = BestAvailableAPI
    /\ m_initialized
    /\ rOp = "CreateBuffer"

C22_FirstWorkingCandidate ==
    rOp = "CreateRenderer" =>
        ret = IF rIn.platform = "Windows" /\ rIn.dx12Device /\ rIn.dx12Constructs
              THEN "DirectX12"
              ELSE IF rIn.platform = "Windows" /\ rIn.dx11Constructs
              THEN "DirectX11"
              ELSE NullHandle

\* CreateRenderer() has returned an object on a Windows machine on which
\* DirectX 12 is available and its renderer can be constructed
C22_Witness ==
    /\ rOp = "CreateRenderer"
    /\ rIn.platform = "Windows" /\ rIn.dx12Device /\ rIn.dx12Constructs
    /\ ret # NullHandle

\* C23: after Shutdown() followed by a successful Initialize() on the same
\* backend object, the counters of GetStats() and the active back-buffer
\* index are those of a freshly constructed backend after its first
\* successful Initialize(): all 0.
C23_NothingSurvivesShutdown ==
    [][(rOp = "Shutdown" /\ rOp' = "Initialize" /\ ret' = "true") =>
           /\ m_stats' = NoStats
           /\ m_currBackBuffer' = 0]_vars

\* C24: a key or mouse-button message that does not change the state of its
\* key or button (down for one that is down, up for one that is up) invokes
\* no callback.
C24_CallbackOnlyOnEdge ==
    [][(\/ /\ inOp' \in {"KeyDown", "KeyUp"}
           /\ m_currentKeyState' = m_currentKeyState
        \/ /\ inOp' \in {"MouseButtonDown", "MouseButtonUp"}
           /\ m_currentMouseState' = m_currentMouseState)
       => invoked' = <<>>]_vars

\* a key-up message for W has been processed while W was up and a key
\* callback was registered
C24_Witness ==
    /\ inOp = "KeyUp"
    /\ inArg = 87
    /\ pressAge[87] = AgeNone
    /\ m_keyCallback # NULL
    /\ invoked # <<>>

\* C25: a key message whose virtual-key code is not in the key map changes
\* no state of the input router and invokes no callback.
C25_UnmappedKeyIgnored ==
    [][(inOp' \in {"KeyDown", "KeyUp"} /\ inArg' = KeyUnknown) =>
           /\ UNCHANGED inputProgVars
           /\ invoked' = <<>>]_vars

\* a key-down message with an unmapped code has been processed while W was
\* down and a key callback was registered
C25_Witness ==
    /\ inOp = "KeyDown"
    /\ inArg = KeyUnknown
    /\ m_keyCallback # NULL
    /\ m_currentKeyState = {87}

\* C26: Update() never changes the current key or button state, and a key
\* whose key-down message has been processed is down after any number of
\* Update() calls, as long as no key-up message for it (and no
\* ResetInputState) is processed.
C26_UpdateKeepsCurrentState ==
    [][/\ inOp' = "Update" =>
             UNCHANGED <<m_currentKeyState, m_currentMouseState>>
       /\ \A k \in ModelKeys :
             pressAge'[k] # AgeNone => k \in m_currentKeyState']_vars

\* Update() has returned for at least the second time since the key-down
\* message of W, with a mouse button down, and W is down
C26_Witness ==
    /\ inOp = "Update"
    /\ pressAge[87] = AgeCap
    /\ IsKeyDown(87)
    /\ m_currentMouseState # {}

\* C27: GetMouseWheelDelta() returns 0 after every Update(): a delta
\* recorded by a wheel message is reset by the next Update(), and with no
\* wheel message since the previous Update() it is 0 as well.
C27_WheelDeltaZeroAfterUpdate ==
    inOp = "Update" => m_wheelDelta = 0

\* Update() has returned after a wheel message had recorded a delta
\* that is not 0
C27_Witness ==
    /\ inOp = "Update"
    /\ inArg # 0
    /\ m_wheelDelta = 0

\* C28: when Shutdown() has returned the mouse is not captured and the
\* cursor is visible, whatever CaptureMouse and ShowCursor calls came
\* before, and a Shutdown() that follows a Shutdown() makes no platform
\* call and changes nothing.
C28_ShutdownRestoresCursor ==
    [][/\ inOp' = "Shutdown" => (~m_mouseCaptured' /\ m_cursorVisible')
       /\ (inOp = "Shutdown" /\ inOp' = "Shutdown") =>
             (cursorCalls' = <<>> /\ UNCHANGED inputProgVars)]_vars

\* Shutdown() has returned after it released the capture and showed the
\* hidden cursor
C28_Witness ==
    /\ inOp = "Shutdown"
    /\ cursorCalls = <<"ReleaseCapture", "ShowCursor">>
    /\ ~m_mouseCaptured
    /\ m_cursorVisible

\* C29: a ShowCursor(v) with v = m_cursorVisible and a CaptureMouse(v) with
\* v = m_mouseCaptured make no platform call and change no state.
C29_SameArgumentNoEffect ==
    [][(\/ inOp' = "ShowCursor" /\ (inArg' = 1) = m_cursorVisible
        \/ inOp' = "CaptureMouse" /\ (inArg' = 1) = m_mouseCaptured) =>
           (cursorCalls' = <<>> /\ UNCHANGED inputProgVars)]_vars

\* ShowCursor(false) has returned without a platform call: the cursor was
\* hidden already; the mouse is captured
C29_Witness ==
    /\ inOp = "ShowCursor"
    /\ inArg = 0
    /\ ~m_cursorVisible
    /\ cursorCalls = <<>>
    /\ m_mouseCaptured

\* C30: there is one handler per kind of event.  A message invokes at most
\* one handler, and that one is the handler now registered for its kind
\* (the one the last Set*Callback of that kind gave); messages change no
\* registration, and ClearCallbacks() leaves no handler registered, so
\* after it no message invokes a handler until a Set*Callback call.
C30_OneHandlerPerKind ==
    [][LET registered ==
               CASE inOp' \in {"KeyDown", "KeyUp"} -> m_keyCallback'
                 [] inOp' \in {"MouseButtonDown", "MouseButtonUp"} ->
                        m_mouseButtonCallback'
                 [] inOp' = "MouseMove" -> m_mouseMoveCallback'
                 [] inOp' = "MouseWheel" -> m_mouseScrollCallback'
                 [] OTHER -> NULL
       IN  /\ inOp' = "ClearCallbacks" =>
                 callbacks' = <<NULL, NULL, NULL, NULL>>
           /\ inOp' \in InputEvents =>
                 /\ UNCHANGED callbacks
                 /\ Len(invoked') <= 1
                 /\ \A i \in 1..Len(invoked') :
                       /\ invoked'[i].handler = registered
                       /\ registered # NULL]_vars

\* a wheel message has invoked handler 2, the scroll handler, and nothing
\* else, while handler 1 is registered for every other kind of event
C30_Witness ==
    /\ inOp = "MouseWheel"
    /\ Len(invoked) = 1
    /\ invoked[1].handler = 2
    /\ m_mouseScrollCallback = 2
    /\ m_keyCallback = 1
    /\ m_mouseButtonCallback = 1
    /\ m_mouseMoveCallback = 1

\* C31: on a router that is not initialized (m_hwnd is null: Initialize was
\* never called, or the last Initialize was given a null handle and
\* returned false) IsKeyDown, WasKeyPressed, WasKeyReleased and
\* IsMouseButtonDown return false and GetMouseDelta and GetMouseWheelDelta
\* return 0.
C31_UninitializedQueriesDefault ==
    m_hwnd = NULL =>
        /\ \A key \in ModelKeys :
              ~IsKeyDown(key) /\ ~WasKeyPressed(key) /\ ~WasKeyReleased(key)
        /\ \A button \in MouseButtons : ~IsMouseButtonDown(button)
        /\ m_mouseDeltaX = 0 /\ m_mouseDeltaY = 0
        /\ m_wheelDelta = 0

\* Initialize with a null handle has returned false and IsKeyDown(W) is true
C31_Witness ==
    /\ inOp = "Initialize"
    /\ m_hwnd = NULL
    /\ IsKeyDown(87)

\* C32: Win32Window::Initialize on a window that is initialized returns
\* false and changes no state of the window or of its input router, and
\* when Initialize has returned true ShouldClose() is false.
C32_InitializeOnceAndOpen ==
    [][wOp' = "Initialize" =>
          /\ m_isInitialized =>
                (~wRet' /\ UNCHANGED <<windowProgVars, inputProgVars>>)
          /\ wRet' => ~ShouldClose']_vars

\* Initialize has returned true on a window that had been closed and shut
\* down, and ShouldClose() is true
C32_Witness ==
    /\ wOp = "Initialize"
    /\ wRet
    /\ m_isInitialized
    /\ ShouldClose

\* C33: on the window SystemFactory::CreateApplicationWindow(config)
\* returns (constructed, and initialized with config), IsVSyncEnabled()
\* equals config.vsync as long as SetVSync has not been called.
C33_VSyncFromConfig ==
    (m_isInitialized /\ ~vsyncSet) => IsVSyncEnabled = m_config.vsync

\* Initialize has returned true for a configuration with vsync = false,
\* SetVSync was never called, and IsVSyncEnabled() is true
C33_Witness ==
    /\ wOp = "Initialize"
    /\ wRet
    /\ ~vsyncSet
    /\ ~m_config.vsync
    /\ IsVSyncEnabled

\* C34: when Win32Window::Update() has returned, a key whose up-to-down
\* message was dispatched during that call (and no later message for it)
\* has WasKeyPressed true, and a key whose up-to-down message was dispatched
\* during an earlier call, with no message for it since, has WasKeyPressed
\* false.
C34_PressedSeenAfterWindowUpdate ==
    (wOp = "Update" /\ inOp = "Update") =>
        \A key \in ModelKeys :
            /\ pressAge[key] = 1 => WasKeyPressed(key)
            /\ pressAge[key] > 1 /\ pressAge[key] # AgeNone => ~WasKeyPressed(key)

\* Update() has returned after it dispatched the key-down message of W,
\* which was up; W is down and WasKeyPressed(W) is false
C34_Witness ==
    /\ wOp = "Update"
    /\ inOp = "Update"
    /\ pressAge[87] = 1
    /\ IsKeyDown(87)
    /\ ~WasKeyPressed(87)

\* C35: for every RendererAPI value and every platform, if IsAPISupported
\* returns true for it then CreateRenderer returns an object for it, unless
\* the construction of the renderer throws; so CreateRenderer(Auto) always
\* returns an object unless the construction throws.
C35_SupportedImpliesCreated ==
    rOp = "CreateRenderer" =>
        LET chosen == IF rIn.requested = "Auto" THEN GetBestAvailableAPI(rIn)
                      ELSE rIn.requested
            throws == \/ chosen = "DirectX11" /\ IsDirectX11Available(rIn)
                         /\ ~rIn.dx11Constructs
                      \/ chosen = "DirectX12" /\ IsDirectX12Available(rIn)
                         /\ ~rIn.dx12Constructs
        IN  (IsAPISupported(rIn.requested, rIn) /\ ~throws) =>
                CreateRendererOf(rIn.requested, rIn) # NullHandle

\* OpenGL is asked for on Windows: IsAPISupported returns true and
\* CreateRenderer returns nullptr
C35_Witness ==
    /\ rOp = "CreateRenderer"
    /\ rIn.requested = "OpenGL"
    /\ rIn.platform = "Windows"
    /\ IsAPISupported(rIn.requested, rIn)
    /\ CreateRendererOf(rIn.requested, rIn) = NullHandle

\* C36: in well-ordered frame cycles on DirectX 12, with OnResize only
\* between a Present and the next BeginFrame, the buffer m_currBackBuffer
\* names is in the presentable state when BeginFrame records its barrier and
\* in the render-target state when EndFrame records its barrier.
C36_BarrierBeforeStateRight ==
    [][(m_initialized /\ rOp' \in {"BeginFrame", "EndFrame"}) =>
          m_swapChainBuffer[m_currBackBuffer] =
              IF rOp' = "BeginFrame" THEN "PRESENT" ELSE "RENDER_TARGET"]_vars

\* BeginFrame has recorded its barrier on a released buffer
C36_Witness ==
    /\ rOp = "BeginFrame"
    /\ m_initialized
    /\ cycPhase = 1
    /\ m_swapChainBuffer[m_currBackBuffer] = "null"

\* the results of an IRenderer call that a caller can observe
Observable(object) ==
    [ret |-> object.ret, IsInitialized |-> object.m_initialized,
     frameCount |-> object.m_stats.frameCount, drawCalls |-> object.m_stats.drawCalls,
     vertices |-> object.m_stats.vertices, triangles |-> object.m_stats.triangles]

\* C37: given the same IRenderer calls with every platform call succeeding,
\* DirectX11Renderer and DirectX12Renderer return the same from Initialize
\* and show the same IsInitialized() and the same frameCount, drawCalls,
\* vertices and triangles of GetStats() after each call.
C37_BackendsObservablyEqual ==
    (twinPhase = 0 /\ rOp # "Construct") =>
        Observable(LoadedObject) = Observable(parked)

\* both objects have been initialized and asked to initialize again, and
\* the return values differ
C37_Witness ==
    /\ twinPhase = 0
    /\ rOp = "Initialize"
    /\ m_initialized /\ parked.m_initialized
    /\ ret # parked.ret

\* C38: in frame cycles on DirectX 12, also when the swap-chain Present
\* fails, every command list submitted before has been completed by the GPU
\* when BeginFrame resets the command allocator and the command list.
C38_AllocatorResetAfterGPUDone ==
    [][(m_initialized /\ rOp' = "BeginFrame") => PendingFrames = 0]_vars

\* BeginFrame has reset the allocator with the frame of the cycle before
\* still pending, the Present of that cycle having failed
C38_Witness ==
    /\ rOp = "BeginFrame"
    /\ m_initialized
    /\ cycPhase = 1
    /\ PendingFrames >= 1

\* the OnResize of the step reached ResizeBuffers and ResizeBuffers failed
\* (DirectX12Renderer leaves its buffers released only then)
ResizeBuffersFailed ==
    /\ rOp' = "OnResize"
    /\ m_initialized
    /\ ~SameSizeGiven
    /\ ~rIn'.ok
    /\ api = "DirectX11" => (rIn'.width # 0 /\ rIn'.height # 0)
    /\ api = "DirectX12" => m_swapChainBuffer' = ReleasedBuffers

\* C39: when the swap-chain resize inside OnResize(w, h) fails, the stored
\* back-buffer width and height keep their values, so that (w, h) still
\* differs from them and a later OnResize(w, h) is not skipped; both backends.
C39_FailedResizeKeepsSize ==
    [][ResizeBuffersFailed =>
          /\ UNCHANGED backBufferSize
          /\ <<m_backBufferWidth', m_backBufferHeight'>> # <<rIn'.width, rIn'.height>>]_vars

\* a resize of an 800 x 600 DirectX 12 backend to 1024 x 768 has failed and
\* the backend stores 1024 x 768
C39_Witness ==
    /\ api = "DirectX12"
    /\ m_initialized
    /\ rOp = "OnResize"
    /\ ~rIn.ok /\ rIn.width = 1024 /\ rIn.height = 768
    /\ m_swapChainBuffer = ReleasedBuffers
    /\ m_backBufferWidth = 1024 /\ m_backBufferHeight = 768

\* C40: OnResize(w, h) with w = 0 or h = 0 leaves the state of the backend
\* unchanged: stored dimensions, back buffers, back-buffer index; both
\* backends.
C40_ZeroSizeResizeNoOp ==
    [][(rOp' = "OnResize" /\ (rIn'.width = 0 \/ rIn'.height = 0)) =>
          UNCHANGED rendererProgVars]_vars

\* OnResize(0, 0) has returned on an initialized DirectX 12 backend that
\* now stores 0 x 0
C40_Witness ==
    /\ api = "DirectX12"
    /\ m_initialized
    /\ rOp = "OnResize"
    /\ rIn.width = 0 /\ rIn.height = 0
    /\ m_backBufferWidth = 0 /\ m_backBufferHeight = 0

====
